---------------------------- MODULE Spec2Model ----------------------------
(***************************************************************************)
(* A model of the DEM pipeline of opendm/dem/commands.py:                  *)
(*   - create_dem: external renderer, tile discovery, virtual mosaic,      *)
(*     optional gap fill, optional smoothing, promotion of the final       *)
(*     raster, cleanup (specification SpecDem);                            *)
(*   - median_smoothing / window_filter_2d: windowed, lock-disciplined     *)
(*     median filter with ping/pong scratch rasters (SpecSmooth);          *)
(*   - the tile planner described in the design document, which in this    *)
(*     code base lives in the external renderer (SpecPlan);                *)
(*   - the signal handling of opendm/system.py (InterruptRender, part of   *)
(*     SpecDem);                                                           *)
(*   - the tile worker pool described in the design document, imported    *)
(*     from opendm.concurrency (SpecPool, SpecPoolFair);                   *)
(*   - window_filter_2d called on its own with any window (SpecWindow);    *)
(*   - the EPT build of opendm/entwine.py with its untwine fallback        *)
(*     (SpecEpt);                                                          *)
(*   - the chain of connected stages of opendm/types.py, ODM_Stage.run     *)
(*     (SpecStage).                                                        *)
(***************************************************************************)
EXTENDS Integers, Sequences, FiniteSets, TLC

VARIABLES
    \* ---- create_dem ----
    pc,                  \* position of create_dem
    max_workers,         \* parameter
    gapfill,             \* parameter
    apply_smoothing,     \* parameter
    keep_unfilled_copy,  \* parameter
    plan,                \* the tile files the renderer is asked to produce
    tileFiles,           \* tile files present in outdir
    disk,                \* the named files of outdir: name -> content
    tiles,               \* the local list `tiles`
    renderRets,          \* exit statuses of the renderdem processes run so far
    failedAt,            \* the step that raised ("" while none has)
    exc,                 \* the exception create_dem ended with ("": none)
    \* ---- median_smoothing / window_filter_2d ----
    s_pc,                \* position of median_smoothing
    smoothing_iterations,\* parameter
    window_size,         \* parameter
    num_workers,         \* parameter
    kernel_size,         \* size of the median kernel and of the halo
    shape,               \* <<rows, cols>> of the rasters
    rast,                \* pixel content of each raster file
    present,             \* the raster files that exist
    img,                 \* the handle read by the current iteration
    imgout,              \* the handle written by the current iteration
    imgout2,             \* the second scratch handle
    iteration,           \* the loop variable i
    windows,             \* the windows of the current iteration
    nextWin,             \* index of the next window to dispatch
    wpc,                 \* position of each worker thread
    wwin,                \* the window each worker is filtering
    warr,                \* win_arr of each worker
    read_lock,           \* holder of read_lock (0: free)
    write_lock,          \* holder of write_lock (0: free)
    nreads,              \* per window of the iteration, the reads done
    nwrites,             \* per window of the iteration, the writes done
    \* ---- the tile planner ----
    p_pc,                \* position of plan
    extent,              \* [minx, maxx, miny, maxy]
    resolution,          \* ground units per pixel
    max_tile_pixels,     \* pixel budget of one tile
    radiuses,            \* the radii, in the order given
    planned,             \* the planned tiles
    \* ---- system: signals and the exit of the process ----
    exit_status,         \* <<>> while the process runs, <<status>> once it exited
    sigterm_sent,        \* the child processes sent SIGTERM by exit_gracefully
    \* ---- the tile worker pool (render_all) ----
    r_pc,                \* position of the pool owner
    r_max_workers,       \* parameter
    r_tiles,             \* the number of tiles to render
    queue,               \* the job queue: tile indexes, 0 for a sentinel
    jobs_remaining,      \* jobs put and not yet acknowledged
    sentinels,           \* sentinels enqueued so far
    error_flag,          \* 0 while unset, else the tile whose failure is stored
    flag_stores,         \* how many times a failure was written to the flag
    wk,                  \* position of each worker
    wjob,                \* the tile each worker is rendering
    wsaw,                \* whether the worker found the flag unset on failure
    joined,              \* whether the owner has joined the workers
    seq_passes,          \* sequential passes started
    seq_idx,             \* the tile of the sequential pass
    seq_rendering,       \* whether the sequential pass is inside render_fn
    r_error,             \* the failure render_all ended with (0: none)
    invoked,             \* the tiles render_fn was called with, in call order
    completed,           \* per tile, how many calls of render_fn returned
    \* ---- entwine.build ----
    ept_pc,              \* position of build
    num_files,           \* len(input_point_cloud_files)
    rerun,               \* parameter
    ept_fs,              \* which of output_path, scan.json and tmpdir exist
    build_i,             \* entwine build runs completed by build_entwine
    ept_runs,            \* the commands run so far, with their exit statuses
    \* ---- ODM_Stage.run ----
    st_pc,               \* position of the chain of run calls
    stage,               \* self of the innermost run call (0: none)
    start_stage,         \* the stage run was first called on
    args_end_with,       \* args.end_with (0: the name of no stage)
    args_rerun,          \* args.rerun (0: None)
    next_stage,          \* next_stage of each stage (0: None)
    tree,                \* whether outputs.get('tree') is not None
    ran                  \* the calls of process so far: stage, outcome, tree

demVars == <<pc, max_workers, gapfill, apply_smoothing, keep_unfilled_copy,
             plan, tileFiles, disk, tiles, renderRets, failedAt, exc>>

smoothVars == <<s_pc, smoothing_iterations, window_size, num_workers, kernel_size,
                shape, rast, present, img, imgout, imgout2, iteration, windows,
                nextWin, wpc, wwin, warr, read_lock, write_lock,
                nreads, nwrites>>

planVars == <<p_pc, extent, resolution, max_tile_pixels, radiuses, planned>>

sigVars == <<exit_status, sigterm_sent>>

poolVars == <<r_pc, r_max_workers, r_tiles, queue, jobs_remaining, sentinels,
              error_flag, flag_stores, wk, wjob, wsaw, joined, seq_passes,
              seq_idx, seq_rendering, r_error, invoked, completed>>

eptVars == <<ept_pc, num_files, rerun, ept_fs, build_i, ept_runs>>

stageVars == <<st_pc, stage, start_stage, args_end_with, args_rerun,
               next_stage, tree, ran>>

vars == <<demVars, smoothVars, planVars, sigVars, poolVars, eptVars, stageVars>>

-----------------------------------------------------------------------------
(* Bounds of the model *)

MaxWorkers == 2
MaxTiles == 4
MaxRows == 2
MaxCols == 3
MaxVal == 1
MaxIter == 2
MaxCoord == 5
MaxRes == 2
MaxTilePixels == 3
MaxFiles == 2
MaxStages == 3

-----------------------------------------------------------------------------
(* Helpers on sequences *)

RECURSIVE Perms(_)
Perms(S) ==
    IF S = {} THEN {<<>>}
    ELSE UNION {{<<x>> \o p : p \in Perms(S \ {x})} : x \in S}

Range(s) == {s[i] : i \in 1..Len(s)}

RECURSIVE SelectRadius(_, _)
\* the subsequence of the tiles of radius r, in the order of s
SelectRadius(s, r) ==
    IF s = <<>> THEN <<>>
    ELSE IF Head(s)[1] = r THEN <<Head(s)>> \o SelectRadius(Tail(s), r)
         ELSE SelectRadius(Tail(s), r)

-----------------------------------------------------------------------------
(* The files of outdir (create_dem) *)

output_path == "dsm.tif"
unfilled_path == "dsm.unfilled.tif"
tiles_vrt_path == "tiles.vrt"
tiles_file_list == "tiles_list.txt"
merged_vrt_path == "merged.vrt"
geotiff_tmp_path == "tiles.tmp.tif"
geotiff_small_path == "tiles.small.tif"
geotiff_small_filled_path == "tiles.small_filled.tif"
geotiff_path == "tiles.tif"
output_dirty_1 == "dsm.dirty_1.tif"
output_dirty_2 == "dsm.dirty_2.tif"

FileNames ==
    {output_path, unfilled_path, tiles_vrt_path, tiles_file_list,
     merged_vrt_path, geotiff_tmp_path, geotiff_small_path,
     geotiff_small_filled_path, geotiff_path, output_dirty_1, output_dirty_2}

\* A file's content: what it was built from (the tile list, in paint order)
\* and the processing it went through.
File(k, ts, tg) == [kind |-> k, tiles |-> ts, tags |-> tg]
Absent == File("absent", <<>>, {})
Partial == File("partial", <<>>, {})
PreviousOutput == File("raster", <<>>, {"previous"})

Exists(d, f) == d[f].kind # "absent"

\* a raster written by this invocation (not one a previous run left)
IsNewRaster(c) == c.kind = "raster" /\ "previous" \notin c.tags

\* tile file names are r<radius>_x<ix>_y<iy>.tif: <<radius, ix, iy>>
Radius(t) == t[1]
\* the renderer's tile grid: one tile per radius and grid column
AllPlans ==
    {(1..p[1]) \X (0..(p[2] - 1)) \X {0} :
        p \in {q \in (1..MaxTiles) \X (1..MaxTiles) : q[1] * q[2] <= MaxTiles}}

-----------------------------------------------------------------------------
(* system.run: the exit status of a child process *)

RetCodes == {-1, 0, 1}

RunRaisesSignalOnly(retcode) == retcode < 0

\* run raises when the child was killed by a signal or returned non-zero
RunRaises(retcode) == retcode < 0 \/ retcode > 0

-----------------------------------------------------------------------------
(* Rasters (median_smoothing, window_filter_2d) *)

\* img.nodatavals[0]: the nodata sentinel, below every valid value
nodata == 0

PixelValues == 0..MaxVal

\* kernel_size, an odd number equal to the size of the median filter (both 9
\* in median_smoothing), in the sizes whose halo fits the bounded rasters
KernelSizes == {1, 3}

Shapes == (1..MaxRows) \X (1..MaxCols)
Pixels(sh) == (0..(sh[1] - 1)) \X (0..(sh[2] - 1))
Rasters(sh) == [Pixels(sh) -> PixelValues]

\* a raster created with the profile of the source and never written
Blank(sh) == [p \in Pixels(sh) |-> nodata]

EmptyArr == [p \in {} |-> nodata]
NoWindow == <<0, 0, 0, 0>>

SmoothFiles == {geotiff_path, output_dirty_1, output_dirty_2, output_path}

Min(a, b) == IF a < b THEN a ELSE b
Max(a, b) == IF a > b THEN a ELSE b

\* numpy.arange(0, n, step) as a sequence
Arange(n, step) == [k \in 1..((n + step - 1) \div step) |-> (k - 1) * step]

WindowsUnclipped(sh, ws) ==
    LET xs == Arange(sh[1], ws)
        ys == Arange(sh[2], ws)
    IN  [k \in 1..(Len(xs) * Len(ys)) |->
            LET r == xs[((k - 1) % Len(xs)) + 1]
                c == ys[((k - 1) \div Len(xs)) + 1]
            IN  <<r, c, r + ws, c + ws>>]

\* rows, cols = meshgrid(arange(0, shape[0], ws), arange(0, shape[1], ws)),
\* flattened, with rows_end and cols_end clipped to the shape
Windows(sh, ws) ==
    LET xs == Arange(sh[1], ws)
        ys == Arange(sh[2], ws)
    IN  [k \in 1..(Len(xs) * Len(ys)) |->
            LET r == xs[((k - 1) % Len(xs)) + 1]
                c == ys[((k - 1) \div Len(xs)) + 1]
            IN  <<r, c, Min(r + ws, sh[1]), Min(c + ws, sh[2])>>]

OutOfBoundsNever(sh, window) == FALSE

\* window[0] < 0 or window[1] < 0 or window[2] > shape[0] or window[3] > shape[1]
OutOfBounds(sh, window) ==
    window[1] < 0 \/ window[2] < 0 \/ window[3] > sh[1] \/ window[4] > sh[2]

ExpandedWindowNoHalo(sh, window, k) == window

\* the window padded by kernel_size // 2 on every side, clamped to the raster
ExpandedWindow(sh, window, k) ==
    <<Max(0, window[1] - (k \div 2)), Max(0, window[2] - (k \div 2)),
      Min(sh[1], window[3] + (k \div 2)), Min(sh[2], window[4] + (k \div 2))>>

\* img.read(indexes=1, window=Window(col_off, row_off, width, height))
ReadWindow(r, w) ==
    [p \in (0..(w[3] - w[1] - 1)) \X (0..(w[4] - w[2] - 1)) |->
        r[<<w[1] + p[1], w[2] + p[2]>>]]

Clamp(x, lo, hi) == Max(lo, Min(x, hi))

\* ndimage.median_filter(a, size=k, mode='nearest') on an array of h rows
\* and w columns: the middle of the k*k values around each position, the
\* array being extended by repeating its border
MedianFilter(a, h, w, k) ==
    LET offs == (0 - (k \div 2))..(k \div 2)
        at(p, d) == a[<<Clamp(p[1] + d[1], 0, h - 1), Clamp(p[2] + d[2], 0, w - 1)>>]
        below(p, v) == Cardinality({d \in offs \X offs : at(p, d) < v})
        upto(p, v) == Cardinality({d \in offs \X offs : at(p, d) <= v})
    IN  [p \in DOMAIN a |->
            CHOOSE v \in PixelValues :
                below(p, v) <= (k * k) \div 2 /\ (k * k) \div 2 < upto(p, v)]

RestoreNodataSkipped(orig, filtered) == filtered

\* nodata_locs = win_arr == nodata; ...; win_arr[nodata_locs] = nodata
RestoreNodata(orig, filtered) ==
    [p \in DOMAIN filtered |-> IF orig[p] = nodata THEN nodata ELSE filtered[p]]

\* win_arr[window[0] - ew[0] : window[2] - ew[0], window[1] - ew[1] : window[3] - ew[1]]
Crop(a, window, ew) ==
    [p \in (0..(window[3] - window[1] - 1)) \X (0..(window[4] - window[2] - 1)) |->
        a[<<p[1] + (window[1] - ew[1]), p[2] + (window[2] - ew[2])>>]]

\* the body of window_filter_2d between the read and the write
FilterWindow(arr, window, ew, k) ==
    Crop(RestoreNodata(arr, MedianFilter(arr, ew[3] - ew[1], ew[4] - ew[2], k)),
         window, ew)

\* imgout.write(win_arr, indexes=1, window=Window(col_off, row_off, width, height))
WriteWindow(r, arr, window) ==
    [p \in DOMAIN r |->
        IF /\ window[1] <= p[1] /\ p[1] < window[3]
           /\ window[2] <= p[2] /\ p[2] < window[4]
        THEN arr[<<p[1] - window[1], p[2] - window[2]>>]
        ELSE r[p]]

-----------------------------------------------------------------------------
(* median_smoothing *)

Workers == 1..num_workers

SmoothParked ==
    /\ s_pc = "idle"
    /\ smoothing_iterations = 0
    /\ window_size = 1
    /\ num_workers = 1
    /\ kernel_size = 1
    /\ shape = <<1, 1>>
    /\ rast = [f \in SmoothFiles |-> Blank(<<1, 1>>)]
    /\ present = {}
    /\ img = geotiff_path
    /\ imgout = output_dirty_1
    /\ imgout2 = output_dirty_2
    /\ iteration = 0
    /\ windows = <<>>
    /\ nextWin = 1
    /\ wpc = [w \in 1..MaxWorkers |-> "idle"]
    /\ wwin = [w \in 1..MaxWorkers |-> NoWindow]
    /\ warr = [w \in 1..MaxWorkers |-> EmptyArr]
    /\ read_lock = 0
    /\ write_lock = 0
    /\ nreads = <<>>
    /\ nwrites = <<>>

-----------------------------------------------------------------------------
(* create_dem *)

RECURSIVE SortFrom(_, _)
SortFrom(s, r) ==
    IF r = 0 THEN <<>> ELSE SelectRadius(s, r) \o SortFrom(s, r - 1)

SortTilesUnsorted(s) == s

RECURSIVE SortUpFrom(_, _)
SortUpFrom(s, r) ==
    IF r > MaxTiles THEN <<>> ELSE SelectRadius(s, r) \o SortUpFrom(s, r + 1)

SortTilesFineFirst(s) == SortUpFrom(s, 1)

\* tiles.sort(key=radius, reverse=True): a stable sort by decreasing radius
SortTiles(s) == SortFrom(s, MaxTiles)

SigParked ==
    /\ exit_status = <<>>
    /\ sigterm_sent = {}

WorkerIds == 1..(MaxWorkers + 1)

\* the directories of an EPT build: the output directory, the scan.json in
\* it, the temp directory
EptFs ==
    {f \in [output : BOOLEAN, scan_json : BOOLEAN, tmp : BOOLEAN] :
        f.scan_json => f.output}

EptParked ==
    /\ ept_pc = "idle"
    /\ num_files = 0
    /\ rerun = FALSE
    /\ ept_fs = [output |-> FALSE, scan_json |-> FALSE, tmp |-> FALSE]
    /\ build_i = 0
    /\ ept_runs = <<>>

\* the stages, named by their position in the order they are connected in
Stages == 1..MaxStages

\* a.connect(b): a.next_stage = b
Connect(ns, a, b) == [ns EXCEPT ![a] = b]

RECURSIVE ConnectUpTo(_)
\* first.connect(second).connect(third)...: connect returns its argument
ConnectUpTo(n) ==
    IF n <= 1 THEN [i \in Stages |-> 0]
    ELSE Connect(ConnectUpTo(n - 1), n - 1, n)

StageParked ==
    /\ st_pc = "idle"
    /\ stage = 0
    /\ start_stage = 0
    /\ args_end_with = 0
    /\ args_rerun = 0
    /\ next_stage = [i \in Stages |-> 0]
    /\ tree = FALSE
    /\ ran = <<>>

PoolParked ==
    /\ r_pc = "idle"
    /\ r_max_workers = 1
    /\ r_tiles = 0
    /\ queue = <<>>
    /\ jobs_remaining = 0
    /\ sentinels = 0
    /\ error_flag = 0
    /\ flag_stores = 0
    /\ wk = [w \in WorkerIds |-> "unstarted"]
    /\ wjob = [w \in WorkerIds |-> 0]
    /\ wsaw = [w \in WorkerIds |-> FALSE]
    /\ joined = FALSE
    /\ seq_passes = 0
    /\ seq_idx = 0
    /\ seq_rendering = FALSE
    /\ r_error = 0
    /\ invoked = <<>>
    /\ completed = [t \in 1..MaxTiles |-> 0]

PlanParked ==
    /\ p_pc = "idle"
    /\ extent = [minx |-> 0, maxx |-> 0, miny |-> 0, maxy |-> 0]
    /\ resolution = 1
    /\ max_tile_pixels = 1
    /\ radiuses = <<>>
    /\ planned = <<>>

DemParked ==
    /\ pc = "idle"
    /\ max_workers = 1
    /\ gapfill = FALSE
    /\ apply_smoothing = FALSE
    /\ keep_unfilled_copy = FALSE
    /\ plan = {}
    /\ tileFiles = {}
    /\ disk = [f \in FileNames |-> Absent]
    /\ tiles = <<>>
    /\ renderRets = <<>>
    /\ failedAt = ""
    /\ exc = ""

DemInit ==
    /\ SmoothParked
    /\ PlanParked
    /\ PoolParked
    /\ EptParked
    /\ StageParked
    /\ exit_status = <<>>
    /\ sigterm_sent = {}
    /\ pc = "renderdem"
    /\ max_workers \in 1..MaxWorkers
    /\ gapfill \in BOOLEAN
    /\ apply_smoothing \in BOOLEAN
    /\ keep_unfilled_copy \in BOOLEAN
    /\ plan \in AllPlans
    /\ tileFiles = {}
    /\ disk \in {[f \in FileNames |-> Absent],
                 [f \in FileNames |-> IF f = output_path THEN PreviousOutput ELSE Absent]}
    /\ tiles = <<>>
    /\ renderRets = <<>>
    /\ failedAt = ""
    /\ exc = ""

\* the names the module opendm.system defines
SystemNames ==
    {"running_subprocesses", "cleanup_callbacks", "get_ccd_widths",
     "add_cleanup_callback", "remove_cleanup_callback", "exit_gracefully",
     "sighandler", "run", "now", "now_raw", "benchmark", "mkdir_p", "which"}

\* system.<name>: a name the module does not define raises AttributeError
SystemAttr(name) == IF name \in SystemNames THEN name ELSE "AttributeError"

\* the exception a failing step ends with: raise system.ExitException(...)
\* in the tile discovery, Exception from system.run and the like elsewhere
ExceptionOf(step) ==
    IF step = "fetch" THEN SystemAttr("ExitException") ELSE "Exception"

Raise(step) ==
    /\ pc' = "error"
    /\ failedAt' = step
    /\ exc' = ExceptionOf(step)

\* a child process that failed may have left a partial target behind
FailedTarget(d, f) == {d, [d EXCEPT ![f] = Partial]}

\* system.run('renderdem ...'): one process renders every tile
RenderDem ==
    /\ pc = "renderdem"
    /\ \E ret \in RetCodes, written \in SUBSET plan :
        /\ renderRets' = Append(renderRets, ret)
        /\ tileFiles' = tileFiles \cup written
        /\ IF RunRaises(ret)
           THEN Raise("renderdem")
           ELSE pc' = "fetch" /\ UNCHANGED <<failedAt, exc>>
    /\ UNCHANGED <<smoothVars, planVars, sigVars, poolVars, eptVars, stageVars>>
    /\ UNCHANGED <<max_workers, gapfill, apply_smoothing, keep_unfilled_copy,
                   plan, disk, tiles>>

NoTilesNever(found) == FALSE

\* if len(tiles) == 0: raise ExitException("No DEM tiles were generated ...")
NoTiles(found) == Len(found) = 0

\* glob (any listing order) + regexp + the emptiness check + sort +
\* tiles_list.txt.  The named files of outdir never match the tile regexp.
FetchTiles ==
    /\ pc = "fetch"
    /\ \E order \in Perms(tileFiles) :
        /\ tiles' = SortTiles(order)
        /\ IF NoTiles(order)
           THEN Raise("fetch") /\ disk' = disk
           ELSE /\ pc' = "buildvrt"
                /\ UNCHANGED <<failedAt, exc>>
                /\ disk' = [disk EXCEPT ![tiles_file_list] =
                                File("list", SortTiles(order), {})]
    /\ UNCHANGED <<smoothVars, planVars, sigVars, poolVars, eptVars, stageVars>>
    /\ UNCHANGED <<max_workers, gapfill, apply_smoothing, keep_unfilled_copy,
                   plan, tileFiles, renderRets>>

\* run(cmd) producing `target` with `content`, then going to `next`
RunStep(step, target, content, next) ==
    /\ pc = step
    /\ \E ret \in RetCodes :
        IF RunRaises(ret)
        THEN /\ Raise(step)
             /\ disk' \in FailedTarget(disk, target)
        ELSE /\ pc' = next
             /\ UNCHANGED <<failedAt, exc>>
             /\ disk' = [disk EXCEPT ![target] = content]
    /\ UNCHANGED <<smoothVars, planVars, sigVars, poolVars, eptVars, stageVars>>
    /\ UNCHANGED <<max_workers, gapfill, apply_smoothing, keep_unfilled_copy,
                   plan, tileFiles, tiles, renderRets>>

\* gdalbuildvrt -input_file_list tiles_list.txt tiles.vrt
BuildVrt ==
    RunStep("buildvrt", tiles_vrt_path,
            File("vrt", disk[tiles_file_list].tiles, {}),
            IF gapfill THEN "translate_tmp" ELSE "translate")

\* gdal_translate tiles.vrt tiles.tmp.tif
TranslateTmp ==
    RunStep("translate_tmp", geotiff_tmp_path,
            File("raster", disk[tiles_vrt_path].tiles, {}), "translate_small")

\* gdal_translate -outsize 10% tiles.tmp.tif tiles.small.tif
TranslateSmall ==
    RunStep("translate_small", geotiff_small_path,
            File("raster", disk[geotiff_tmp_path].tiles, {"small"}), "fillnodata")

\* gdal_fillnodata tiles.small.tif tiles.small_filled.tif
FillNodata ==
    RunStep("fillnodata", geotiff_small_filled_path,
            File("raster", disk[geotiff_small_path].tiles,
                 disk[geotiff_small_path].tags \cup {"filled"}), "buildvrt_merged")

\* gdalbuildvrt -resolution highest merged.vrt tiles.small_filled.tif tiles.tmp.tif
BuildMergedVrt ==
    RunStep("buildvrt_merged", merged_vrt_path,
            File("vrt", disk[geotiff_tmp_path].tiles,
                 (disk[geotiff_small_filled_path].tags \ {"small"}) \cup {"gapfilled"}),
            "translate")

\* gdal_translate (merged.vrt | tiles.vrt) tiles.tif
TranslateFinal ==
    LET src == IF gapfill THEN merged_vrt_path ELSE tiles_vrt_path
    IN  RunStep("translate", geotiff_path,
                File("raster", disk[src].tiles, disk[src].tags), "promote")

SmoothCallPromotesOnFailure(d, ok) ==
    [d EXCEPT ![output_path] = File("raster", d[geotiff_path].tiles,
                                    d[geotiff_path].tags \cup {"smoothed"}),
              ![output_dirty_1] = Absent,
              ![output_dirty_2] = Absent]

\* median_smoothing(geotiff_path, output_path) with its default single
\* iteration: both scratch rasters are created; when every window went
\* through, dirty_1 is renamed to output_path and dirty_2 removed; when a
\* window raises, the rename is never reached.
SmoothCall(d, ok) ==
    IF ok
    THEN [d EXCEPT ![output_path] = File("raster", d[geotiff_path].tiles,
                                         d[geotiff_path].tags \cup {"smoothed"}),
                   ![output_dirty_1] = Absent,
                   ![output_dirty_2] = Absent]
    ELSE [d EXCEPT ![output_dirty_1] = Partial,
                   ![output_dirty_2] = Partial]

\* if apply_smoothing: median_smoothing(...); os.remove(geotiff_path)
\* else: os.replace(geotiff_path, output_path)
Promote ==
    /\ pc = "promote"
    /\ IF apply_smoothing
       THEN \E ok \in BOOLEAN :
              IF ok
              THEN /\ disk' = [SmoothCall(disk, TRUE) EXCEPT ![geotiff_path] = Absent]
                   /\ pc' = "cleanup"
                   /\ UNCHANGED <<failedAt, exc>>
              ELSE /\ disk' = SmoothCall(disk, FALSE)
                   /\ Raise("median_smoothing")
       ELSE /\ disk' = [disk EXCEPT ![output_path] = disk[geotiff_path],
                                    ![geotiff_path] = Absent]
            /\ pc' = "cleanup"
            /\ UNCHANGED <<failedAt, exc>>
    /\ UNCHANGED <<smoothVars, planVars, sigVars, poolVars, eptVars, stageVars>>
    /\ UNCHANGED <<max_workers, gapfill, apply_smoothing, keep_unfilled_copy,
                   plan, tileFiles, tiles, renderRets>>

RemoveAllSkipped(d, fs) == d

\* for cleanup_file in [...]: if os.path.exists(cleanup_file): os.remove(cleanup_file)
RemoveAll(d, fs) == [f \in FileNames |-> IF f \in fs THEN Absent ELSE d[f]]

UnfilledCopyAlwaysKept(d, keep) ==
    IF Exists(d, geotiff_tmp_path)
    THEN [d EXCEPT ![unfilled_path] = d[geotiff_tmp_path],
                   ![geotiff_tmp_path] = Absent]
    ELSE d

\* if os.path.exists(geotiff_tmp_path): remove it, or rename it to the
\* '.unfilled' name when keep_unfilled_copy is set
UnfilledCopy(d, keep) ==
    IF Exists(d, geotiff_tmp_path)
    THEN IF ~keep
         THEN [d EXCEPT ![geotiff_tmp_path] = Absent]
         ELSE [d EXCEPT ![unfilled_path] = d[geotiff_tmp_path],
                        ![geotiff_tmp_path] = Absent]
    ELSE d

CleanupReachedEarly(p) == p \in {"translate", "promote", "cleanup"}

\* the cleanup statements follow the promotion of the final raster
CleanupReached(p) == p = "cleanup"

\* the unfilled copy, the intermediate files, the tile files
Cleanup ==
    /\ CleanupReached(pc)
    /\ UNCHANGED <<failedAt, exc>>
    /\ LET d1 == UnfilledCopy(disk, keep_unfilled_copy)
       IN  disk' = RemoveAll(d1, {tiles_vrt_path, tiles_file_list, merged_vrt_path,
                                  geotiff_small_path, geotiff_small_filled_path})
    /\ tileFiles' = tileFiles \ Range(tiles)
    /\ pc' = "done"
    /\ UNCHANGED <<smoothVars, planVars, sigVars, poolVars, eptVars, stageVars>>
    /\ UNCHANGED <<max_workers, gapfill, apply_smoothing, keep_unfilled_copy,
                   plan, tiles, renderRets>>

\* os.remove / os.replace of the cleanup raising (an I/O error propagates)
CleanupFails ==
    /\ pc = "cleanup"
    /\ Raise("cleanup")
    /\ UNCHANGED <<smoothVars, planVars, sigVars, poolVars, eptVars, stageVars>>
    /\ UNCHANGED <<max_workers, gapfill, apply_smoothing, keep_unfilled_copy,
                   plan, tileFiles, disk, tiles, renderRets>>

SigtermTargetsNone(running) == {}

\* for sp in running_subprocesses: os.killpg(os.getpgid(sp.pid), SIGTERM)
SigtermTargets(running) == running

\* SIGINT or SIGTERM delivered while system.run waits for renderdem:
\* sighandler calls exit_gracefully, which signals the process group of
\* every running child and ends the process with os._exit(1).  The renderer
\* may have written some of its tiles by then.
InterruptRender ==
    /\ pc = "renderdem"
    /\ \E written \in SUBSET plan : tileFiles' = tileFiles \cup written
    /\ sigterm_sent' = sigterm_sent \cup SigtermTargets({"renderdem"})
    /\ exit_status' = <<1>>
    /\ pc' = "killed"
    /\ UNCHANGED <<smoothVars, planVars, poolVars, eptVars, stageVars>>
    /\ UNCHANGED <<max_workers, gapfill, apply_smoothing, keep_unfilled_copy,
                   plan, disk, tiles, renderRets, failedAt, exc>>

DemNext ==
    \/ InterruptRender
    \/ RenderDem
    \/ FetchTiles
    \/ BuildVrt
    \/ TranslateTmp
    \/ TranslateSmall
    \/ FillNodata
    \/ BuildMergedVrt
    \/ TranslateFinal
    \/ Promote
    \/ Cleanup
    \/ CleanupFails

SpecDem == DemInit /\ [][DemNext]_vars

-----------------------------------------------------------------------------
(* median_smoothing and its window workers *)

SmoothInit ==
    /\ DemParked
    /\ PlanParked
    /\ SigParked
    /\ PoolParked
    /\ EptParked
    /\ StageParked
    /\ s_pc = "start"
    /\ smoothing_iterations \in 0..MaxIter
    /\ window_size \in 1..MaxCols
    /\ num_workers \in 1..MaxWorkers
    /\ kernel_size \in KernelSizes
    /\ shape \in Shapes
    /\ \E r \in Rasters(shape) :
        rast = [f \in SmoothFiles |-> IF f = geotiff_path THEN r ELSE Blank(shape)]
    /\ present \in {{geotiff_path}, {}, {geotiff_path, output_path}, {output_path}}
    /\ img = geotiff_path
    /\ imgout = output_dirty_1
    /\ imgout2 = output_dirty_2
    /\ iteration = 0
    /\ windows = <<>>
    /\ nextWin = 1
    /\ wpc = [w \in 1..MaxWorkers |-> "idle"]
    /\ wwin = [w \in 1..MaxWorkers |-> NoWindow]
    /\ warr = [w \in 1..MaxWorkers |-> EmptyArr]
    /\ read_lock = 0
    /\ write_lock = 0
    /\ nreads = <<>>
    /\ nwrites = <<>>

SourceMissingIgnored(p) == FALSE

\* not os.path.exists(geotiff_path)
SourceMissing(p) == geotiff_path \notin p

\* if not os.path.exists(geotiff_path): raise; otherwise the source is
\* opened and both scratch rasters are created with its profile
OpenRasters ==
    /\ s_pc = "start"
    /\ IF SourceMissing(present)
       THEN /\ s_pc' = "error"
            /\ UNCHANGED <<rast, present>>
       ELSE /\ s_pc' = "loop"
            /\ present' = present \cup {output_dirty_1, output_dirty_2}
            /\ rast' = [rast EXCEPT ![output_dirty_1] = Blank(shape),
                                    ![output_dirty_2] = Blank(shape)]
    /\ img' = geotiff_path
    /\ imgout' = output_dirty_1
    /\ imgout2' = output_dirty_2
    /\ iteration' = 0
    /\ UNCHANGED <<smoothing_iterations, window_size, num_workers, kernel_size,
                   shape, windows, nextWin, wpc, wwin, warr, read_lock, write_lock>>
    /\ UNCHANGED <<nreads, nwrites>>
    /\ UNCHANGED <<demVars, planVars, sigVars, poolVars, eptVars, stageVars>>

\* for i in range(smoothing_iterations): the windows, two fresh locks, and
\* the Parallel call handing the windows to the worker threads
BeginIteration ==
    /\ s_pc = "loop"
    /\ iteration < smoothing_iterations
    /\ windows' = Windows(shape, window_size)
    /\ nextWin' = 1
    /\ read_lock' = 0
    /\ write_lock' = 0
    /\ s_pc' = "parallel"
    /\ UNCHANGED <<smoothing_iterations, window_size, num_workers, kernel_size,
                   shape, rast, present, img, imgout, imgout2, iteration,
                   wpc, wwin, warr>>
    /\ nreads' = [k \in 1..Len(windows') |-> 0]
    /\ nwrites' = [k \in 1..Len(windows') |-> 0]
    /\ UNCHANGED <<demVars, planVars, sigVars, poolVars, eptVars, stageVars>>

\* the position in the list of windows of the window a worker holds
WindowIndex(ws, window) == CHOOSE k \in 1..Len(ws) : ws[k] = window

LockFreeAlways(lock) == TRUE

\* `with lock:` is entered only while no thread holds the lock
LockFree(lock) == lock = 0

ReleasedNever(lock) == lock

\* leaving `with lock:` releases the lock
Released(lock) == 0

\* a free thread takes the next window, checks its bounds and enters
\* `with read_lock:`
StartRead(w) ==
    /\ s_pc = "parallel"
    /\ wpc[w] = "idle"
    /\ nextWin <= Len(windows)
    /\ nextWin' = nextWin + 1
    /\ IF OutOfBounds(shape, windows[nextWin])
       THEN /\ s_pc' = "error"
            /\ UNCHANGED <<wpc, wwin, read_lock>>
       ELSE /\ LockFree(read_lock)
            /\ read_lock' = w
            /\ wwin' = [wwin EXCEPT ![w] = windows[nextWin]]
            /\ wpc' = [wpc EXCEPT ![w] = "reading"]
            /\ s_pc' = s_pc
    /\ UNCHANGED <<smoothing_iterations, window_size, num_workers, kernel_size,
                   shape, rast, present, img, imgout, imgout2, iteration,
                   windows, warr, write_lock>>
    /\ UNCHANGED <<nreads, nwrites>>
    /\ UNCHANGED <<demVars, planVars, sigVars, poolVars, eptVars, stageVars>>

\* win_arr = img.read(...) of the expanded window; the read lock is released
FinishRead(w) ==
    /\ s_pc = "parallel"
    /\ wpc[w] = "reading"
    /\ warr' = [warr EXCEPT ![w] =
                    ReadWindow(rast[img], ExpandedWindow(shape, wwin[w], kernel_size))]
    /\ read_lock' = Released(read_lock)
    /\ wpc' = [wpc EXCEPT ![w] = "filter"]
    /\ UNCHANGED <<s_pc, smoothing_iterations, window_size, num_workers, kernel_size,
                   shape, rast, present, img, imgout, imgout2, iteration,
                   windows, nextWin, wwin, write_lock>>
    /\ nreads' = [nreads EXCEPT ![WindowIndex(windows, wwin[w])] = @ + 1]
    /\ UNCHANGED nwrites
    /\ UNCHANGED <<demVars, planVars, sigVars, poolVars, eptVars, stageVars>>

\* the filter, the nodata restore and the crop, outside both locks
Filter(w) ==
    /\ s_pc = "parallel"
    /\ wpc[w] = "filter"
    /\ warr' = [warr EXCEPT ![w] =
                    FilterWindow(warr[w], wwin[w],
                                 ExpandedWindow(shape, wwin[w], kernel_size),
                                 kernel_size)]
    /\ wpc' = [wpc EXCEPT ![w] = "wantwrite"]
    /\ UNCHANGED <<s_pc, smoothing_iterations, window_size, num_workers, kernel_size,
                   shape, rast, present, img, imgout, imgout2, iteration,
                   windows, nextWin, wwin, read_lock, write_lock>>
    /\ UNCHANGED <<nreads, nwrites>>
    /\ UNCHANGED <<demVars, planVars, sigVars, poolVars, eptVars, stageVars>>

\* win_arr = filter(win_arr) raising: the exception leaves window_filter_2d,
\* Parallel re-raises it in median_smoothing, the `with` block closes the
\* rasters and the exception leaves median_smoothing
FilterRaises(w) ==
    /\ s_pc = "parallel"
    /\ wpc[w] = "filter"
    /\ wpc' = [wpc EXCEPT ![w] = "raised"]
    /\ s_pc' = "error"
    /\ UNCHANGED <<smoothing_iterations, window_size, num_workers, kernel_size,
                   shape, rast, present, img, imgout, imgout2, iteration,
                   windows, nextWin, wwin, warr, read_lock, write_lock>>
    /\ UNCHANGED <<nreads, nwrites>>
    /\ UNCHANGED <<demVars, planVars, sigVars, poolVars, eptVars, stageVars>>

\* entering `with write_lock:`
StartWrite(w) ==
    /\ s_pc = "parallel"
    /\ wpc[w] = "wantwrite"
    /\ LockFree(write_lock)
    /\ write_lock' = w
    /\ wpc' = [wpc EXCEPT ![w] = "writing"]
    /\ UNCHANGED <<s_pc, smoothing_iterations, window_size, num_workers, kernel_size,
                   shape, rast, present, img, imgout, imgout2, iteration,
                   windows, nextWin, wwin, warr, read_lock>>
    /\ UNCHANGED <<nreads, nwrites>>
    /\ UNCHANGED <<demVars, planVars, sigVars, poolVars, eptVars, stageVars>>

OutputHandleInPlace(in, out) == in

\* window_filter_2d(img, imgout, ...): the handle the windows are written to
OutputHandle(in, out) == out

\* imgout.write(...) of the cropped window; the write lock is released and
\* the call returns
FinishWrite(w) ==
    /\ s_pc = "parallel"
    /\ wpc[w] = "writing"
    /\ rast' = [rast EXCEPT ![OutputHandle(img, imgout)] =
                    WriteWindow(@, warr[w], wwin[w])]
    /\ write_lock' = Released(write_lock)
    /\ wpc' = [wpc EXCEPT ![w] = "idle"]
    /\ wwin' = [wwin EXCEPT ![w] = NoWindow]
    /\ warr' = [warr EXCEPT ![w] = EmptyArr]
    /\ UNCHANGED <<s_pc, smoothing_iterations, window_size, num_workers, kernel_size,
                   shape, present, img, imgout, imgout2, iteration,
                   windows, nextWin, read_lock>>
    /\ nwrites' = [nwrites EXCEPT ![WindowIndex(windows, wwin[w])] = @ + 1]
    /\ UNCHANGED nreads
    /\ UNCHANGED <<demVars, planVars, sigVars, poolVars, eptVars, stageVars>>

AllReturnedSkipped(p) == TRUE

\* the Parallel call returns when every call of window_filter_2d has returned
AllReturned(p) == \A w \in Workers : p[w] = "idle"

SwapNever(i, in, out, out2) == <<in, out>>

SwapAliased(i, in, out, out2) == <<out, out>>

\* if (i == 0): img = imgout; imgout = imgout2
\* else: img, imgout = imgout, img
\* as the pair <<img, imgout>> after the statement
Swap(i, in, out, out2) == IF i = 0 THEN <<out, out2>> ELSE <<out, in>>

\* Parallel returned: the handles swap roles for the next iteration
EndIteration ==
    /\ s_pc = "parallel"
    /\ nextWin > Len(windows)
    /\ AllReturned(wpc)
    /\ img' = Swap(iteration, img, imgout, imgout2)[1]
    /\ imgout' = Swap(iteration, img, imgout, imgout2)[2]
    /\ iteration' = iteration + 1
    /\ s_pc' = "loop"
    /\ UNCHANGED <<smoothing_iterations, window_size, num_workers, kernel_size,
                   shape, rast, present, imgout2, windows, nextWin, wpc, wwin,
                   warr, read_lock, write_lock>>
    /\ UNCHANGED <<nreads, nwrites>>
    /\ UNCHANGED <<demVars, planVars, sigVars, poolVars, eptVars, stageVars>>

OddIterationsNever(n) == FALSE

\* if (smoothing_iterations % 2 != 0): swap the names of the scratch files
OddIterations(n) == n % 2 # 0

LoopEndedOrRaised(p, i, n) == (p = "loop" /\ i = n) \/ p = "error"

\* the statements after the `with` block are reached only when the loop ran
\* all its iterations without an exception
LoopEnded(p, i, n) == p = "loop" /\ i = n

\* the rasters are closed; the scratch file holding the result is renamed to
\* output_path and the other one removed
Finish ==
    /\ LoopEnded(s_pc, iteration, smoothing_iterations)
    /\ LET output_dirty_in == IF OddIterations(smoothing_iterations)
                              THEN output_dirty_2 ELSE output_dirty_1
           output_dirty_out == IF OddIterations(smoothing_iterations)
                               THEN output_dirty_1 ELSE output_dirty_2
       IN  /\ rast' = IF output_dirty_out \in present
                      THEN [rast EXCEPT ![output_path] = rast[output_dirty_out]]
                      ELSE rast
           /\ present' = (IF output_dirty_out \in present
                          THEN present \cup {output_path} ELSE present)
                         \ {output_dirty_out, output_dirty_in}
    /\ s_pc' = "done"
    /\ UNCHANGED <<smoothing_iterations, window_size, num_workers, kernel_size,
                   shape, img, imgout, imgout2, iteration, windows, nextWin,
                   wpc, wwin, warr, read_lock, write_lock>>
    /\ UNCHANGED <<nreads, nwrites>>
    /\ UNCHANGED <<demVars, planVars, sigVars, poolVars, eptVars, stageVars>>

SmoothNext ==
    \/ OpenRasters
    \/ BeginIteration
    \/ \E w \in Workers : StartRead(w)
    \/ \E w \in Workers : FinishRead(w)
    \/ \E w \in Workers : Filter(w)
    \/ \E w \in Workers : FilterRaises(w)
    \/ \E w \in Workers : StartWrite(w)
    \/ \E w \in Workers : FinishWrite(w)
    \/ EndIteration
    \/ Finish

SpecSmooth == SmoothInit /\ [][SmoothNext]_vars

\* the steps of the thread that called median_smoothing
MainStep == OpenRasters \/ BeginIteration \/ EndIteration \/ Finish

\* the steps of one worker thread of the Parallel call
WindowStep(w) ==
    /\ w \in Workers
    /\ \/ StartRead(w) \/ FinishRead(w) \/ Filter(w) \/ FilterRaises(w)
       \/ StartWrite(w) \/ FinishWrite(w)

\* rasters whose pixels all hold the same value
UniformRasters(sh) == {[p \in Pixels(sh) |-> v] : v \in PixelValues}

\* no guard of a step looks at a pixel value: the runs whose scheduling is
\* examined start from the uniform source rasters
SmoothInitUniform ==
    /\ SmoothInit
    /\ rast[geotiff_path] \in UniformRasters(shape)

\* the calling thread and the worker threads are threads the operating
\* system keeps running
SpecSmoothFair ==
    /\ SmoothInitUniform
    /\ [][SmoothNext]_vars
    /\ WF_vars(MainStep)
    /\ \A w \in 1..MaxWorkers : WF_vars(WindowStep(w))

-----------------------------------------------------------------------------
(* The tile planner: plan(extent, resolution, max_tile_pixels, radii).       *)
(* Coordinates are fixed-point numbers; a division rounds down, which is    *)
(* the rounding the snap of the last column and row absorbs.                *)

CeilDiv(a, b) == (a + b - 1) \div b

RECURSIVE CeilLog2(_)
\* ceil(log2(n)) for n >= 1
CeilLog2(n) == IF n <= 1 THEN 0 ELSE 1 + CeilLog2(CeilDiv(n, 2))

Width(e) == e.maxx - e.minx
Height(e) == e.maxy - e.miny

\* final_pixels_x * final_pixels_y
TotalPixels(e, res) == CeilDiv(Width(e), res) * CeilDiv(Height(e), res)

NumSplitsFloorRatio(total, budget) == Max(1, CeilLog2(total \div budget))

\* max(1, ceil(log2(ceil(total_pixels / max_tile_pixels))))
NumSplits(total, budget) == Max(1, CeilLog2(CeilDiv(total, budget)))

LastEdgeNoSnap(lo, hi, n, k) == lo + (k + 1) * ((hi - lo) \div n)

\* the upper edge of column (or row) k of n: the last one is snapped to hi
UpperEdge(lo, hi, n, k) ==
    IF k = n - 1 THEN hi ELSE lo + (k + 1) * ((hi - lo) \div n)

LowerEdge(lo, hi, n, k) == lo + k * ((hi - lo) \div n)

TileBounds(e, n, ix, iy) ==
    [minx |-> LowerEdge(e.minx, e.maxx, n, ix),
     maxx |-> UpperEdge(e.minx, e.maxx, n, ix),
     miny |-> LowerEdge(e.miny, e.maxy, n, iy),
     maxy |-> UpperEdge(e.miny, e.maxy, n, iy)]

\* the n * n tiles of one radius, column by column
RadiusTiles(e, n, r) ==
    [k \in 1..(n * n) |->
        [radius |-> r, ix |-> (k - 1) \div n, iy |-> (k - 1) % n,
         bounds |-> TileBounds(e, n, (k - 1) \div n, (k - 1) % n)]]

RECURSIVE AllRadiusTiles(_, _, _)
AllRadiusTiles(e, n, rs) ==
    IF rs = <<>> THEN <<>>
    ELSE RadiusTiles(e, n, Head(rs)) \o AllRadiusTiles(e, n, Tail(rs))

RECURSIVE SelectByRadius(_, _)
SelectByRadius(s, r) ==
    IF s = <<>> THEN <<>>
    ELSE IF Head(s).radius = r THEN <<Head(s)>> \o SelectByRadius(Tail(s), r)
         ELSE SelectByRadius(Tail(s), r)

RECURSIVE SortPlanFrom(_, _)
\* a stable sort by decreasing radius
SortPlanFrom(s, r) ==
    IF r = 0 THEN <<>> ELSE SelectByRadius(s, r) \o SortPlanFrom(s, r - 1)

RadiiLists == {<<1>>, <<1, 2>>, <<2, 3, 1>>}
MaxOf(rs) == CHOOSE m \in Range(rs) : \A x \in Range(rs) : x <= m

DegenerateWidthOnly(e) == Width(e) = 0

Degenerate(e) == Width(e) = 0 \/ Height(e) = 0

PlanInit ==
    /\ DemParked
    /\ SmoothParked
    /\ SigParked
    /\ PoolParked
    /\ EptParked
    /\ StageParked
    /\ p_pc = "start"
    /\ extent \in {e \in [minx : 0..1, maxx : 0..MaxCoord, miny : 0..1, maxy : 0..MaxCoord] :
                      e.minx <= e.maxx /\ e.miny <= e.maxy}
    /\ resolution \in 1..MaxRes
    /\ max_tile_pixels \in 0..MaxTilePixels
    /\ radiuses \in RadiiLists
    /\ planned = <<>>

\* a degenerate extent or a budget <= 0 fails with PlanningError
PlanFails ==
    /\ p_pc = "start"
    /\ Degenerate(extent) \/ max_tile_pixels <= 0
    /\ p_pc' = "error"
    /\ UNCHANGED <<extent, resolution, max_tile_pixels, radiuses, planned>>
    /\ UNCHANGED <<demVars, smoothVars, sigVars, poolVars, eptVars, stageVars>>

\* the tiles of every radius, sorted by decreasing radius
PlanTiles ==
    /\ p_pc = "start"
    /\ ~(Degenerate(extent) \/ max_tile_pixels <= 0)
    /\ planned' = SortPlanFrom(
                      AllRadiusTiles(extent,
                                     NumSplits(TotalPixels(extent, resolution),
                                               max_tile_pixels),
                                     radiuses),
                      MaxOf(radiuses))
    /\ p_pc' = "planned"
    /\ UNCHANGED <<extent, resolution, max_tile_pixels, radiuses>>
    /\ UNCHANGED <<demVars, smoothVars, sigVars, poolVars, eptVars, stageVars>>

PlanNext ==
    \/ PlanFails
    \/ PlanTiles

SpecPlan == PlanInit /\ [][PlanNext]_vars

-----------------------------------------------------------------------------
(* The tile worker pool: render_all(tiles, max_workers, render_fn).  SIGINT *)
(* and SIGTERM end the process in system.sighandler (see InterruptRender),  *)
(* so the owner is asked to stop only when no job remains.                  *)

Sentinel == 0

StartedOneMore(n) == 1..(n + 1)

\* exactly max_workers worker tasks are started
Started(n) == 1..n

Running == {w \in WorkerIds : wk[w] # "unstarted"}

DequeuePeek(q) == q

\* queue.get(): the job at the head leaves the queue
Dequeue(q) == Tail(q)

SeqTileReversed(n, i) == n + 1 - i

\* the i-th tile of the sequential pass over a list of n tiles: list order
SeqTile(n, i) == i

PoolInit ==
    /\ DemParked
    /\ SmoothParked
    /\ PlanParked
    /\ SigParked
    /\ EptParked
    /\ StageParked
    /\ r_pc = "start"
    /\ r_max_workers \in 1..MaxWorkers
    /\ r_tiles \in 0..MaxTiles
    /\ queue = <<>>
    /\ jobs_remaining = 0
    /\ sentinels = 0
    /\ error_flag = 0
    /\ flag_stores = 0
    /\ wk = [w \in WorkerIds |-> "unstarted"]
    /\ wjob = [w \in WorkerIds |-> 0]
    /\ wsaw = [w \in WorkerIds |-> FALSE]
    /\ joined = FALSE
    /\ seq_passes = 0
    /\ seq_idx = 0
    /\ seq_rendering = FALSE
    /\ r_error = 0
    /\ invoked = <<>>
    /\ completed = [t \in 1..MaxTiles |-> 0]

\* max_workers > 1: the workers are started and the queue is seeded with the
\* jobs (sequence_index, tile) in planning order
StartPool ==
    /\ r_pc = "start"
    /\ r_max_workers > 1
    /\ wk' = [w \in WorkerIds |->
                IF w \in Started(r_max_workers) THEN "idle" ELSE "unstarted"]
    /\ queue' = [i \in 1..r_tiles |-> i]
    /\ jobs_remaining' = r_tiles
    /\ r_pc' = "polling"
    /\ UNCHANGED <<r_max_workers, r_tiles, sentinels, error_flag, flag_stores,
                   wjob, wsaw, joined, seq_passes, seq_idx, seq_rendering, r_error>>
    /\ UNCHANGED <<invoked, completed>>
    /\ UNCHANGED <<demVars, smoothVars, planVars, sigVars, eptVars, stageVars>>

\* max_workers <= 1: the tiles are processed sequentially, in list order
StartSequential ==
    /\ r_pc = "start"
    /\ r_max_workers <= 1
    /\ r_pc' = "sequential"
    /\ seq_idx' = 1
    /\ seq_passes' = seq_passes + 1
    /\ UNCHANGED <<r_max_workers, r_tiles, queue, jobs_remaining, sentinels,
                   error_flag, flag_stores, wk, wjob, wsaw, joined,
                   seq_rendering, r_error>>
    /\ UNCHANGED <<invoked, completed>>
    /\ UNCHANGED <<demVars, smoothVars, planVars, sigVars, eptVars, stageVars>>

\* a worker pops a job; a sentinel, or the error flag being set, makes it
\* acknowledge the job and exit; otherwise it invokes render_fn(tile)
Pop(w) ==
    /\ wk[w] = "idle"
    /\ queue # <<>>
    /\ queue' = Dequeue(queue)
    /\ IF Head(queue) = Sentinel \/ error_flag # 0
       THEN /\ jobs_remaining' = jobs_remaining - 1
            /\ wk' = [wk EXCEPT ![w] = "exited"]
            /\ wjob' = wjob
            /\ invoked' = invoked
       ELSE /\ jobs_remaining' = jobs_remaining
            /\ wk' = [wk EXCEPT ![w] = "rendering"]
            /\ wjob' = [wjob EXCEPT ![w] = Head(queue)]
            /\ invoked' = Append(invoked, Head(queue))
    /\ UNCHANGED completed
    /\ UNCHANGED <<r_pc, r_max_workers, r_tiles, sentinels, error_flag, flag_stores,
                   wsaw, joined, seq_passes, seq_idx, seq_rendering, r_error>>
    /\ UNCHANGED <<demVars, smoothVars, planVars, sigVars, eptVars, stageVars>>

\* render_fn(tile) returned: the job is acknowledged
RenderOk(w) ==
    /\ wk[w] = "rendering"
    /\ jobs_remaining' = jobs_remaining - 1
    /\ wk' = [wk EXCEPT ![w] = "idle"]
    /\ wjob' = [wjob EXCEPT ![w] = 0]
    /\ completed' = [completed EXCEPT ![wjob[w]] = @ + 1]
    /\ invoked' = invoked
    /\ UNCHANGED <<r_pc, r_max_workers, r_tiles, queue, sentinels, error_flag,
                   flag_stores, wsaw, joined, seq_passes, seq_idx, seq_rendering,
                   r_error>>
    /\ UNCHANGED <<demVars, smoothVars, planVars, sigVars, eptVars, stageVars>>

\* render_fn(tile) raised: the worker looks at the error flag, which is
\* shared state without synchronization
RenderRaises(w) ==
    /\ wk[w] = "rendering"
    /\ wsaw' = [wsaw EXCEPT ![w] = (error_flag = 0)]
    /\ wk' = [wk EXCEPT ![w] = "raised"]
    /\ UNCHANGED <<r_pc, r_max_workers, r_tiles, queue, jobs_remaining, sentinels,
                   error_flag, flag_stores, wjob, joined, seq_passes, seq_idx,
                   seq_rendering, r_error>>
    /\ UNCHANGED <<invoked, completed>>
    /\ UNCHANGED <<demVars, smoothVars, planVars, sigVars, eptVars, stageVars>>

\* the failure is stored in the flag the worker found unset, the job is
\* acknowledged and the worker goes on draining
StoreError(w) ==
    /\ wk[w] = "raised"
    /\ IF wsaw[w]
       THEN error_flag' = wjob[w] /\ flag_stores' = flag_stores + 1
       ELSE UNCHANGED <<error_flag, flag_stores>>
    /\ jobs_remaining' = jobs_remaining - 1
    /\ wk' = [wk EXCEPT ![w] = "idle"]
    /\ wjob' = [wjob EXCEPT ![w] = 0]
    /\ wsaw' = [wsaw EXCEPT ![w] = FALSE]
    /\ UNCHANGED <<r_pc, r_max_workers, r_tiles, queue, sentinels, joined,
                   seq_passes, seq_idx, seq_rendering, r_error>>
    /\ UNCHANGED <<invoked, completed>>
    /\ UNCHANGED <<demVars, smoothVars, planVars, sigVars, eptVars, stageVars>>

\* the owner polls the jobs-remaining counter; once it is zero it enqueues
\* one sentinel per worker
StopWorkers ==
    /\ r_pc = "polling"
    /\ jobs_remaining = 0
    /\ queue' = queue \o [i \in 1..Cardinality(Running) |-> Sentinel]
    /\ sentinels' = sentinels + Cardinality(Running)
    /\ jobs_remaining' = jobs_remaining + Cardinality(Running)
    /\ r_pc' = "joining"
    /\ UNCHANGED <<r_max_workers, r_tiles, error_flag, flag_stores, wk, wjob, wsaw,
                   joined, seq_passes, seq_idx, seq_rendering, r_error>>
    /\ UNCHANGED <<invoked, completed>>
    /\ UNCHANGED <<demVars, smoothVars, planVars, sigVars, eptVars, stageVars>>

\* the owner joins all workers; a stored failure starts the sequential
\* re-render of the whole tile set
Join ==
    /\ r_pc = "joining"
    /\ \A w \in Running : wk[w] = "exited"
    /\ joined' = TRUE
    /\ IF error_flag # 0
       THEN /\ r_pc' = "sequential"
            /\ seq_idx' = 1
            /\ seq_passes' = seq_passes + 1
       ELSE /\ r_pc' = "done"
            /\ UNCHANGED <<seq_idx, seq_passes>>
    /\ UNCHANGED <<r_max_workers, r_tiles, queue, jobs_remaining, sentinels,
                   error_flag, flag_stores, wk, wjob, wsaw, seq_rendering, r_error>>
    /\ UNCHANGED <<invoked, completed>>
    /\ UNCHANGED <<demVars, smoothVars, planVars, sigVars, eptVars, stageVars>>

\* the sequential pass enters render_fn for its next tile
SeqBegin ==
    /\ r_pc = "sequential"
    /\ ~seq_rendering
    /\ seq_idx <= r_tiles
    /\ seq_rendering' = TRUE
    /\ invoked' = Append(invoked, SeqTile(r_tiles, seq_idx))
    /\ UNCHANGED completed
    /\ UNCHANGED <<r_pc, r_max_workers, r_tiles, queue, jobs_remaining, sentinels,
                   error_flag, flag_stores, wk, wjob, wsaw, joined, seq_passes,
                   seq_idx, r_error>>
    /\ UNCHANGED <<demVars, smoothVars, planVars, sigVars, eptVars, stageVars>>

\* render_fn returns, or raises: any exception of the sequential pass is
\* fatal and aborts immediately
SeqEnd ==
    /\ r_pc = "sequential"
    /\ seq_rendering
    /\ seq_rendering' = FALSE
    /\ \E ok \in BOOLEAN :
        IF ok
        THEN /\ seq_idx' = seq_idx + 1
             /\ completed' = [completed EXCEPT ![SeqTile(r_tiles, seq_idx)] = @ + 1]
             /\ UNCHANGED <<r_pc, r_error>>
        ELSE /\ r_pc' = "failed"
             /\ r_error' = SeqTile(r_tiles, seq_idx)
             /\ seq_idx' = seq_idx
             /\ UNCHANGED completed
    /\ UNCHANGED invoked
    /\ UNCHANGED <<r_max_workers, r_tiles, queue, jobs_remaining, sentinels,
                   error_flag, flag_stores, wk, wjob, wsaw, joined, seq_passes>>
    /\ UNCHANGED <<demVars, smoothVars, planVars, sigVars, eptVars, stageVars>>

\* every tile of the sequential pass was rendered
SeqDone ==
    /\ r_pc = "sequential"
    /\ ~seq_rendering
    /\ seq_idx > r_tiles
    /\ r_pc' = "done"
    /\ UNCHANGED <<r_max_workers, r_tiles, queue, jobs_remaining, sentinels,
                   error_flag, flag_stores, wk, wjob, wsaw, joined, seq_passes,
                   seq_idx, seq_rendering, r_error>>
    /\ UNCHANGED <<invoked, completed>>
    /\ UNCHANGED <<demVars, smoothVars, planVars, sigVars, eptVars, stageVars>>

WorkerStep(w) == Pop(w) \/ RenderOk(w) \/ RenderRaises(w) \/ StoreError(w)

OwnerStep ==
    StartPool \/ StartSequential \/ StopWorkers \/ Join \/ SeqBegin \/ SeqEnd \/ SeqDone

PoolNext ==
    \/ StartPool
    \/ StartSequential
    \/ \E w \in WorkerIds : Pop(w)
    \/ \E w \in WorkerIds : RenderOk(w)
    \/ \E w \in WorkerIds : RenderRaises(w)
    \/ \E w \in WorkerIds : StoreError(w)
    \/ StopWorkers
    \/ Join
    \/ SeqBegin
    \/ SeqEnd
    \/ SeqDone

SpecPool == PoolInit /\ [][PoolNext]_vars

\* the owner and every worker are threads the operating system keeps running
SpecPoolFair ==
    /\ PoolInit
    /\ [][PoolNext]_vars
    /\ WF_vars(OwnerStep)
    /\ \A w \in WorkerIds : WF_vars(WorkerStep(w))

-----------------------------------------------------------------------------
(* Claims about create_dem, checked under SpecDem *)

PastFetch == pc \notin {"renderdem", "fetch", "killed"} /\ failedAt # "renderdem"

TileBefore(a, b) ==
    \/ a[1] < b[1]
    \/ a[1] = b[1] /\ a[2] < b[2]
    \/ a[1] = b[1] /\ a[2] = b[2] /\ a[3] < b[3]

RECURSIVE NameOrder(_)
\* the tile files of S listed by file name
NameOrder(S) ==
    IF S = {} THEN <<>>
    ELSE LET first == CHOOSE x \in S : \A y \in S \ {x} : TileBefore(x, y)
         IN  <<first>> \o NameOrder(S \ {first})

RadiiOf(s) == [i \in 1..Len(s) |-> Radius(s[i])]

\* what compositing the list paints at each grid cell: files listed later
\* paint over files listed earlier; tile <<r, x, y>> covers cell <<x, y>>
Paint(s) ==
    [c \in {<<t[2], t[3]>> : t \in Range(s)} |->
        LET last == CHOOSE i \in 1..Len(s) :
                        /\ <<s[i][2], s[i][3]>> = c
                        /\ \A j \in 1..Len(s) : <<s[j][2], s[j][3]>> = c => j <= i
        IN  s[last]]

\* C1 (as claimed): when the renderer fails under max_workers > 1 with
\* exactly one planned tile not rendered, the invocation does not end in an
\* error after that single render pass.
C1_FallbackRetry ==
    (/\ max_workers > 1
     /\ renderRets # <<>>
     /\ RunRaises(renderRets[1])
     /\ Cardinality(plan \ tileFiles) = 1)
    => ~(pc = "error" /\ Len(renderRets) = 1)

\* C1 (amended): the renderer is run at most once per invocation; when it
\* exits with a non-zero status or is killed, the invocation ends in an error
\* at that step, whatever max_workers is, nothing is re-rendered, no tile is
\* listed and no raster of this invocation reaches the declared output path.
C1_RenderFailureIsFatal ==
    /\ Len(renderRets) <= 1
    /\ (renderRets # <<>> /\ renderRets[1] # 0)
        => /\ pc = "error"
           /\ failedAt = "renderdem"
           /\ tiles = <<>>
           /\ ~IsNewRaster(disk[output_path])

C1_Witness ==
    /\ pc = "error"
    /\ failedAt = "renderdem"
    /\ max_workers > 1
    /\ renderRets = <<1>>
    /\ Cardinality(plan \ tileFiles) = 1

\* C2 (as claimed): when the renderer reported success and a planned tile
\* file is absent while others exist, no virtual mosaic and no final raster
\* is built and the invocation never completes.
C2_MissingTileDetected ==
    (PastFetch /\ renderRets = <<0>> /\ tiles # <<>> /\ Range(tiles) # plan)
    => /\ ~Exists(disk, tiles_vrt_path)
       /\ ~IsNewRaster(disk[output_path])
       /\ pc # "done"

\* C2 (amended): the pipeline fails explicitly, before the tile list or the
\* mosaic is written, only when no tile file at all is found; when at least
\* one tile file is found the mosaic lists exactly the files found.
C2_OnlyEmptyDetected ==
    /\ (PastFetch /\ tiles = <<>>)
        => /\ pc = "error"
           /\ failedAt = "fetch"
           /\ ~Exists(disk, tiles_file_list)
           /\ ~Exists(disk, tiles_vrt_path)
           /\ ~IsNewRaster(disk[output_path])
    /\ disk[tiles_vrt_path].kind = "vrt"
        => /\ tiles # <<>>
           /\ disk[tiles_vrt_path].tiles = tiles

C2_Witness ==
    /\ pc = "error"
    /\ failedAt = "fetch"
    /\ renderRets = <<0>>
    /\ tileFiles = {}

\* C5 (as claimed): the list of tile files handed to the mosaic is the one
\* fixed list of the tile set, whatever order the files were produced and
\* found in.
C5_SameListOrder ==
    (PastFetch /\ tiles # <<>>) => tiles = SortTiles(NameOrder(Range(tiles)))

\* C5 (amended): the list holds each tile file found exactly once, by
\* decreasing radius, so the sequence of radii, and what is painted at each
\* grid cell as long as tiles of one radius do not overlap, is the same for
\* every listing order; files of equal radius keep the listing order.
C5_RadiusOrderFixed ==
    (PastFetch /\ tiles # <<>>)
    => /\ \A i \in 1..Len(tiles), j \in 1..Len(tiles) :
            i < j => Radius(tiles[i]) >= Radius(tiles[j])
       /\ Cardinality(Range(tiles)) = Len(tiles)
       /\ RadiiOf(tiles) = RadiiOf(SortTiles(NameOrder(Range(tiles))))
       /\ Paint(tiles) = Paint(SortTiles(NameOrder(Range(tiles))))

C5_Witness ==
    /\ pc = "done"
    /\ max_workers > 1
    /\ tiles # SortTiles(NameOrder(Range(tiles)))
    /\ \E i \in 1..Len(tiles) : Radius(tiles[i]) # Radius(tiles[1])

\* C8 (as claimed): whenever the invocation has ended with an error, no
\* raster produced by it is at the declared output path.
C8_NoOutputOnError ==
    pc = "error" => ~IsNewRaster(disk[output_path])

\* C8 (amended): a raster of this invocation is at the declared output path
\* only after rendering, discovery, mosaic, gap fill and smoothing all
\* succeeded; it is complete (built from the whole tile list) and only the
\* cleanup follows, so only an error of the cleanup can end the invocation
\* with the new raster in place.
C8_PromotionAfterProcessing ==
    /\ IsNewRaster(disk[output_path])
        => /\ pc \in {"cleanup", "done"} \/ (pc = "error" /\ failedAt = "cleanup")
           /\ disk[output_path].tiles = tiles
           /\ apply_smoothing <=> "smoothed" \in disk[output_path].tags
           /\ gapfill <=> "gapfilled" \in disk[output_path].tags
    /\ disk[output_path].kind \in {"absent", "raster"}

C8_Witness ==
    /\ pc = "error"
    /\ failedAt = "median_smoothing"
    /\ disk[output_path] = PreviousOutput
    /\ Exists(disk, geotiff_path)

-----------------------------------------------------------------------------
(* Claims about median_smoothing, checked under SpecSmooth *)

RECURSIVE FilterWindowsFrom(_, _, _, _, _)
\* the windows ws[n..] filtered one after the other, reading r, writing out
FilterWindowsFrom(r, out, ws, n, k) ==
    IF n > Len(ws) THEN out
    ELSE LET ew == ExpandedWindow(shape, ws[n], k)
         IN  FilterWindowsFrom(
                 r, WriteWindow(out, FilterWindow(ReadWindow(r, ew), ws[n], ew, k), ws[n]),
                 ws, n + 1, k)

RECURSIVE SmoothedTimes(_, _)
\* the raster r after n iterations, each run one window at a time
SmoothedTimes(r, n) ==
    IF n = 0 THEN r
    ELSE FilterWindowsFrom(SmoothedTimes(r, n - 1), Blank(shape),
                           Windows(shape, window_size), 1, kernel_size)

InWindow(p, window) ==
    /\ window[1] <= p[1] /\ p[1] < window[3]
    /\ window[2] <= p[2] /\ p[2] < window[4]

\* C3: smoothing with 0 iterations leaves at the declared output path a
\* raster identical to the input (same pixel values, same nodata mask).
C3_ZeroIterationsIsCopy ==
    (s_pc = "done" /\ smoothing_iterations = 0)
    => /\ output_path \in present
       /\ rast[output_path] = rast[geotiff_path]

\* C4: every pixel position of a window that holds the nodata sentinel in the
\* raster read for the window holds it in the data about to be written for
\* the window, for every window, kernel size and worker.
C4_NodataPreserved ==
    \A w \in Workers :
        wpc[w] \in {"wantwrite", "writing"}
        => \A p \in Pixels(shape) :
             (InWindow(p, wwin[w]) /\ rast[img][p] = nodata)
             => warr[w][<<p[1] - wwin[w][1], p[2] - wwin[w][2]>>] = nodata

\* a worker about to write a window in which the median alone would have
\* replaced a nodata pixel by a valid value
C4_Witness ==
    \E w \in Workers :
        /\ wpc[w] = "writing"
        /\ kernel_size > 1
        /\ LET ew == ExpandedWindow(shape, wwin[w], kernel_size)
               a == ReadWindow(rast[img], ew)
               m == MedianFilter(a, ew[3] - ew[1], ew[4] - ew[2], kernel_size)
           IN  \E p \in Pixels(shape) :
                 /\ InWindow(p, wwin[w])
                 /\ rast[img][p] = nodata
                 /\ m[<<p[1] - ew[1], p[2] - ew[2]>>] # nodata

\* C6: once smoothing is done, the output raster is the one obtained by
\* filtering the windows one at a time, iteration after iteration, whatever
\* the number of workers and their interleaving.
C6_OutputIndependentOfWorkers ==
    (s_pc = "done" /\ smoothing_iterations >= 1)
    => /\ output_path \in present
       /\ rast[output_path] = SmoothedTimes(rast[geotiff_path], smoothing_iterations)

C6_Witness ==
    /\ s_pc = "done"
    /\ num_workers > 1
    /\ smoothing_iterations > 1
    /\ Len(windows) > 1
    /\ kernel_size > 1
    /\ rast[output_path] # rast[geotiff_path]
    /\ rast[output_path] # SmoothedTimes(rast[geotiff_path], 1)

\* C7: at most one worker is inside a raster read and at most one inside a
\* raster write, and each is the holder of the lock protecting it.
C7_IoSerialized ==
    /\ Cardinality({w \in Workers : wpc[w] = "reading"}) <= 1
    /\ Cardinality({w \in Workers : wpc[w] = "writing"}) <= 1
    /\ \A w \in Workers : wpc[w] = "reading" <=> read_lock = w
    /\ \A w \in Workers : wpc[w] = "writing" <=> write_lock = w

\* a read by one worker overlapping a write by another
C7_Witness ==
    \E w1 \in Workers, w2 \in Workers :
        /\ w1 # w2
        /\ wpc[w1] = "reading"
        /\ wpc[w2] = "writing"

-----------------------------------------------------------------------------
(* Claims about the tile planner, checked under SpecPlan *)

PlannedSplits == NumSplits(TotalPixels(extent, resolution), max_tile_pixels)

\* the unit squares of an extent
UnitCells(e) == (e.minx..(e.maxx - 1)) \X (e.miny..(e.maxy - 1))

CellIn(c, b) ==
    /\ b.minx <= c[1] /\ c[1] + 1 <= b.maxx
    /\ b.miny <= c[2] /\ c[2] + 1 <= b.maxy

TilePixels(b, res) == CeilDiv(b.maxx - b.minx, res) * CeilDiv(b.maxy - b.miny, res)

\* C9: for each radius the tile bounds cover the extent exactly: every unit
\* square of the extent lies in exactly one tile (no gap, no shared
\* interior), every tile lies within the extent, and the last column and row
\* end at maxx and maxy.
C9_TilingCoversExtent ==
    p_pc = "planned"
    => \A r \in Range(radiuses) :
        /\ \A c \in UnitCells(extent) :
             Cardinality({k \in DOMAIN planned :
                            planned[k].radius = r /\ CellIn(c, planned[k].bounds)}) = 1
        /\ \A k \in DOMAIN planned :
             planned[k].radius = r
             => /\ extent.minx <= planned[k].bounds.minx
                /\ planned[k].bounds.minx <= planned[k].bounds.maxx
                /\ planned[k].bounds.maxx <= extent.maxx
                /\ extent.miny <= planned[k].bounds.miny
                /\ planned[k].bounds.miny <= planned[k].bounds.maxy
                /\ planned[k].bounds.maxy <= extent.maxy
                /\ planned[k].ix = PlannedSplits - 1
                     => planned[k].bounds.maxx = extent.maxx
                /\ planned[k].iy = PlannedSplits - 1
                     => planned[k].bounds.maxy = extent.maxy

\* a plan of several columns whose width is not a multiple of the split
C9_Witness ==
    /\ p_pc = "planned"
    /\ PlannedSplits >= 2
    /\ Width(extent) % PlannedSplits # 0
    /\ Height(extent) % PlannedSplits # 0
    /\ Len(radiuses) > 1

\* C10: every planned tile contains at most max_tile_pixels pixels.
C10_TileWithinBudget ==
    p_pc = "planned"
    => \A k \in DOMAIN planned :
         TilePixels(planned[k].bounds, resolution) <= max_tile_pixels

\* the pixel ratio rounded up: the least q with q * budget >= total
PixelRatio(total, budget) ==
    CHOOSE q \in 0..total : q * budget >= total /\ \A m \in 0..(q - 1) : m * budget < total

\* the least k with 2^k >= q
LeastPower(q) ==
    CHOOSE k \in 0..q : 2^k >= q /\ \A j \in 0..(k - 1) : 2^j < q

TilesOfRadius(r) == {k \in DOMAIN planned : planned[k].radius = r}

\* C11: the planner produces num_splits * num_splits tiles per radius, all
\* on distinct grid cells, with num_splits the larger of 1 and the least k
\* such that 2^k times the budget holds every pixel; an extent within the
\* budget gives one tile, and a ratio of 100 gives 7 splits and 49 tiles.
C11_TileCount ==
    /\ NumSplits(1677721600, 16777216) = 7
    /\ p_pc = "planned"
        => LET total == TotalPixels(extent, resolution)
               n == Max(1, LeastPower(PixelRatio(total, max_tile_pixels)))
           IN  /\ Len(planned) = n * n * Len(radiuses)
               /\ \A r \in Range(radiuses) :
                    /\ Cardinality(TilesOfRadius(r)) = n * n
                    /\ {<<planned[k].ix, planned[k].iy>> : k \in TilesOfRadius(r)}
                         = (0..(n - 1)) \X (0..(n - 1))
               /\ total <= max_tile_pixels => Len(planned) = Len(radiuses)

\* a plan of several radii split more than once
C11_Witness ==
    /\ p_pc = "planned"
    /\ Len(radiuses) > 1
    /\ PlannedSplits >= 3
    /\ Len(planned) = PlannedSplits * PlannedSplits * Len(radiuses)

\* C18: plan fails, and plans no tile, when the extent has zero width or
\* zero height or when max_tile_pixels <= 0; it fails for no other input and
\* a failed plan stays failed.
C18_PlanningErrors ==
    /\ (p_pc # "start"
        /\ (Width(extent) = 0 \/ Height(extent) = 0 \/ max_tile_pixels <= 0))
        => p_pc = "error" /\ planned = <<>>
    /\ p_pc = "error"
        => /\ planned = <<>>
           /\ Width(extent) = 0 \/ Height(extent) = 0 \/ max_tile_pixels <= 0
    /\ p_pc = "planned" => planned # <<>>

\* a failed plan of an extent of zero height and positive width and budget
C18_Witness ==
    /\ p_pc = "error"
    /\ Height(extent) = 0
    /\ Width(extent) > 0
    /\ max_tile_pixels > 0

Descending(s) ==
    \A i \in 1..Len(s), j \in 1..Len(s) : i < j => Radius(s[i]) >= Radius(s[j])

\* C12: in the local tile list, in tiles_list.txt and in the virtual mosaic
\* built from it, a tile listed before another never has a smaller radius,
\* whatever order the tile files were found in.
C12_CoarseFirst ==
    /\ Descending(tiles)
    /\ Descending(disk[tiles_file_list].tiles)
    /\ Descending(disk[tiles_vrt_path].tiles)
    /\ Exists(disk, tiles_file_list) => disk[tiles_file_list].tiles = tiles

\* a mosaic built from tiles of three radii
C12_Witness ==
    /\ disk[tiles_vrt_path].kind = "vrt"
    /\ Cardinality({Radius(t) : t \in Range(disk[tiles_vrt_path].tiles)}) = 3
    /\ max_workers > 1

C15_CooperativeShutdown ==
    pc = "killed"
    => /\ sentinels = max_workers
       /\ joined
       /\ exit_status # <<>> /\ exit_status[1] # 0
       /\ ~Exists(disk, tiles_vrt_path)
       /\ ~IsNewRaster(disk[output_path])

\* C15 (amended): after SIGINT or SIGTERM during tile rendering the running
\* renderer is sent SIGTERM and the process ends at once with status 1; no
\* sentinel is enqueued and nothing is joined; no tile is listed, no
\* mosaic or intermediate raster is built and no raster of the invocation
\* reaches the declared output path.  The process exits this way only.
C15_InterruptExits ==
    /\ pc = "killed"
        => /\ exit_status = <<1>>
           /\ sigterm_sent = {"renderdem"}
           /\ sentinels = 0 /\ ~joined
           /\ renderRets = <<>>
           /\ tiles = <<>>
           /\ \A f \in FileNames \ {output_path} : ~Exists(disk, f)
           /\ ~IsNewRaster(disk[output_path])
    /\ exit_status # <<>> => pc = "killed"

\* an interrupt that found some tiles already written and a previous output
C15_Witness ==
    /\ pc = "killed"
    /\ max_workers > 1
    /\ tileFiles # {}
    /\ tileFiles # plan
    /\ disk[output_path] = PreviousOutput

\* C16: when the filter raises for a window, smoothing ends in the error
\* state for good: no further window is dispatched or written, no iteration
\* starts, and the declared output path keeps the content and the presence
\* it had; the output path changes only in the step that ends the call
\* successfully.
C16_FailureLeavesOutput ==
    [][/\ s_pc' # "done"
          => /\ rast'[output_path] = rast[output_path]
             /\ (output_path \in present') = (output_path \in present)
       /\ s_pc = "error"
          => UNCHANGED <<s_pc, rast, present, nextWin, iteration, wpc>>]_vars

\* the filter raised in the second iteration, under two workers, with a
\* raster already at the output path
C16_Witness ==
    /\ s_pc = "error"
    /\ \E w \in Workers : wpc[w] = "raised"
    /\ iteration >= 1
    /\ num_workers > 1
    /\ output_path \in present
    /\ output_dirty_1 \in present /\ output_dirty_2 \in present

-----------------------------------------------------------------------------
(* Claims about the tile worker pool, checked under SpecPool and, for      *)
(* what must eventually happen, under SpecPoolFair                          *)

Rendering == {w \in WorkerIds : wk[w] = "rendering"}

InProgress == Cardinality(Rendering) + (IF seq_rendering THEN 1 ELSE 0)

\* C13: whenever a failure has been stored during a concurrent pass, the
\* pool eventually reaches the point where one sentinel per worker has been
\* enqueued, every worker has exited, the owner has joined them and the
\* failure is escalated to the sequential pass.
C13_PoolWindsDown ==
    (r_max_workers > 1 /\ error_flag # 0)
    ~> (/\ joined
        /\ sentinels = r_max_workers
        /\ \A w \in Running : wk[w] = "exited"
        /\ seq_passes >= 1)

\* C14: at most one sequential pass is ever started; a failure stored
\* during a concurrent pass is always followed by exactly one sequential
\* pass that runs to its end or to its first failure, which ends render_all
\* with that error; a failure of the sequential mode ends render_all at once.
C14_SingleRetry ==
    /\ [](/\ seq_passes <= 1
          /\ r_pc = "failed" => (r_error # 0 /\ ~seq_rendering /\ seq_passes = 1)
          /\ (r_max_workers > 1 /\ seq_passes = 1) => (error_flag # 0 /\ joined))
    /\ (r_max_workers > 1 /\ error_flag # 0)
        ~> (seq_passes = 1 /\ r_pc \in {"done", "failed"})

\* C19: a failure is written to the error flag at most once.
C19_FlagWrittenOnce == flag_stores <= 1

\* C20: with max_workers > 1 exactly max_workers workers are started (none
\* otherwise), the renders in progress never exceed max_workers, and once
\* the sequential pass runs no worker renders, so at most one render is in
\* progress.
C20_BoundedRenders ==
    /\ Cardinality(Running) =
         (IF r_max_workers > 1 /\ r_pc # "start" THEN r_max_workers ELSE 0)
    /\ InProgress <= r_max_workers
    /\ r_pc \in {"sequential", "done", "failed"}
        => Rendering = {} /\ InProgress <= 1
    /\ seq_rendering => r_pc = "sequential"

\* every worker inside a render, of more tiles than workers, with tiles
\* still queued
C20_Witness ==
    /\ r_max_workers > 1
    /\ Cardinality(Rendering) = r_max_workers
    /\ r_tiles > r_max_workers
    /\ Len(queue) >= r_max_workers

\* the first n tiles of the list, in list order
FirstTiles(n) == [i \in 1..n |-> i]

\* C21: with max_workers <= 1 no worker is started and render_fn is called
\* for the tiles in list order, each call after the previous one returned;
\* when a call raises, render_all ends with the error of that tile and no
\* later tile has been rendered.
C21_SequentialInOrder ==
    r_max_workers <= 1
    => /\ Running = {}
       /\ InProgress <= 1
       /\ invoked = FirstTiles(Len(invoked))
       /\ Len(invoked) <= r_tiles
       /\ \A t \in 1..MaxTiles :
            completed[t] =
              (IF \/ t < Len(invoked)
                  \/ (t = Len(invoked) /\ ~seq_rendering /\ r_pc # "failed")
               THEN 1 ELSE 0)
       /\ r_pc = "failed"
            => (r_error # 0 /\ r_error = Len(invoked) /\ ~seq_rendering)
       /\ r_pc = "done" => (Len(invoked) = r_tiles /\ r_error = 0)

\* the sequential mode failed on a tile that is neither the first nor the
\* last of the list
C21_Witness ==
    /\ r_max_workers <= 1
    /\ r_pc = "failed"
    /\ r_error >= 2
    /\ r_tiles > r_error

\* C22: in a concurrent pass render_fn is called at most once per tile, no
\* two workers hold the same tile, and when render_all returns without a
\* failure every tile has been rendered exactly once.
C22_EveryTileOnce ==
    (r_max_workers > 1 /\ seq_passes = 0)
    => /\ \A i \in 1..Len(invoked) : \A j \in 1..Len(invoked) :
            invoked[i] = invoked[j] => i = j
       /\ \A t \in 1..MaxTiles : completed[t] <= 1
       /\ \A w1 \in Rendering : \A w2 \in Rendering :
            wjob[w1] = wjob[w2] => w1 = w2
       /\ r_pc = "done"
            => (error_flag = 0 /\ \A t \in 1..r_tiles : completed[t] = 1)

\* a concurrent pass of more tiles than workers returned without a failure
C22_Witness ==
    /\ r_max_workers > 1
    /\ r_pc = "done"
    /\ seq_passes = 0
    /\ r_tiles > r_max_workers

-----------------------------------------------------------------------------
(* Further claims about median_smoothing, checked under SpecSmooth *)

Scratch == {output_dirty_1, output_dirty_2}

\* C23: the first iteration reads the source raster; every read of a window
\* takes its data from the input handle and every write goes to the output
\* handle, and when an iteration ends the raster it wrote becomes the input
\* of the next one, so iteration k+1 reads exactly what iteration k wrote.
C23_DoubleBuffering ==
    /\ []((s_pc \in {"loop", "parallel"} /\ iteration = 0) => img = geotiff_path)
    /\ [][/\ \A w \in Workers :
               (wpc[w] = "reading" /\ wpc'[w] = "filter")
               => warr'[w] = ReadWindow(rast[img],
                                        ExpandedWindow(shape, wwin[w], kernel_size))
          /\ (s_pc = "parallel" /\ rast' # rast)
               => \A f \in SmoothFiles \ {imgout} : rast'[f] = rast[f]
          /\ iteration' # iteration
               => (iteration' = iteration + 1 /\ img' = imgout)]_vars

\* a window of the second iteration being read from a raster the first
\* iteration changed
C23_Witness ==
    /\ s_pc = "parallel"
    /\ iteration = 1
    /\ \E w \in Workers : wpc[w] = "filter"
    /\ img = output_dirty_1
    /\ rast[img] # rast[geotiff_path]

C27_BufferSeparation ==
    /\ [](s_pc \in {"loop", "parallel"}
            => (img # imgout /\ imgout \in Scratch))
    /\ [][rast'[geotiff_path] = rast[geotiff_path]]_vars

\* a worker reads a halo while another one writes a window of the same
\* iteration
C27_Witness ==
    /\ s_pc = "parallel"
    /\ kernel_size > 1
    /\ \E w1 \in Workers : \E w2 \in Workers :
         /\ wpc[w1] = "reading"
         /\ wpc[w2] = "writing"
         /\ \E p \in Pixels(shape) :
              /\ InWindow(p, wwin[w2])
              /\ InWindow(p, ExpandedWindow(shape, wwin[w1], kernel_size))

WindowShape(window) ==
    (0..(window[3] - window[1] - 1)) \X (0..(window[4] - window[2] - 1))

\* C25: the windows of an iteration lie within the raster and are not
\* empty, every pixel of the raster belongs to exactly one of them, and the
\* data a worker writes covers exactly the pixels of its unexpanded window;
\* a write changes no pixel outside that window.
C25_WindowPartition ==
    /\ [](s_pc \in {"parallel", "loop", "done"} =>
            /\ \A k \in 1..Len(windows) :
                 /\ ~OutOfBounds(shape, windows[k])
                 /\ windows[k][1] < windows[k][3]
                 /\ windows[k][2] < windows[k][4]
            /\ iteration >= 1 =>
                 \A p \in Pixels(shape) :
                    Cardinality({k \in 1..Len(windows) : InWindow(p, windows[k])}) = 1
            /\ \A w \in Workers :
                 wpc[w] \in {"wantwrite", "writing"}
                 => DOMAIN warr[w] = WindowShape(wwin[w])
            /\ \A w1 \in Workers : \A w2 \in Workers :
                 (w1 # w2 /\ wpc[w1] # "idle" /\ wpc[w2] # "idle")
                 => wwin[w1] # wwin[w2])
    /\ [][\A w \in Workers :
            (wpc[w] = "writing" /\ wpc'[w] = "idle")
            => \A p \in Pixels(shape) :
                 rast'[imgout][p] =
                    IF InWindow(p, wwin[w])
                    THEN warr[w][<<p[1] - wwin[w][1], p[2] - wwin[w][2]>>]
                    ELSE rast[imgout][p]]_vars

\* a window of the last column, narrower than window_size, about to be
\* written
C25_Witness ==
    /\ s_pc = "parallel"
    /\ Len(windows) > 1
    /\ \E w \in Workers :
         /\ wpc[w] = "writing"
         /\ wwin[w][4] - wwin[w][2] < window_size
         /\ wwin[w][4] = shape[2]
         /\ wwin[w][2] > 0

\* some step of the iteration can be taken
CanProceed ==
    \/ \E w \in Workers : wpc[w] \in {"reading", "filter", "writing"}
    \/ \E w \in Workers : wpc[w] = "wantwrite" /\ write_lock = 0
    \/ \E w \in Workers : wpc[w] = "idle" /\ nextWin <= Len(windows) /\ read_lock = 0
    \/ nextWin > Len(windows) /\ \A w \in Workers : wpc[w] = "idle"

\* C26: a worker holds the read lock exactly while it reads and the write
\* lock exactly while it writes; a worker running the filter, waiting to
\* write or idle holds no lock, no worker holds both locks, and while the
\* windows of an iteration are processed some step can always be taken.
C26_LockScope ==
    /\ \A w \in Workers :
         /\ read_lock = w => wpc[w] = "reading"
         /\ write_lock = w => wpc[w] = "writing"
         /\ wpc[w] \in {"filter", "wantwrite", "idle", "raised"}
              => (read_lock # w /\ write_lock # w)
         /\ ~(read_lock = w /\ write_lock = w)
    /\ read_lock \in {0} \cup Workers
    /\ write_lock \in {0} \cup Workers
    /\ s_pc = "parallel" => CanProceed

\* one worker runs the filter, holding no lock, while another one holds the
\* read lock
C26_Witness ==
    /\ s_pc = "parallel"
    /\ \E w1 \in Workers : \E w2 \in Workers :
         /\ wpc[w1] = "filter"
         /\ wpc[w2] = "reading"
         /\ read_lock = w2

\* the kernel filter applied to the whole raster at once, the nodata
\* positions restored afterwards
WholeRasterFilter(r, sh, k) == RestoreNodata(r, MedianFilter(r, sh[1], sh[2], k))

\* the raster the iteration that just ended read from
LastRead == IF iteration = 1 THEN geotiff_path ELSE imgout

\* C29: when an iteration has ended, the raster it wrote window by window
\* is the raster obtained by filtering the whole raster it read at once and
\* restoring the nodata positions.
C29_HaloSufficient ==
    (s_pc = "loop" /\ iteration >= 1)
    => rast[img] = WholeRasterFilter(rast[LastRead], shape, kernel_size)

\* an iteration over several windows, each narrower than the raster, with a
\* kernel reaching into the neighbouring windows, that changed the raster
C29_Witness ==
    /\ s_pc = "loop"
    /\ iteration >= 1
    /\ kernel_size > 1
    /\ window_size = 1
    /\ shape[2] >= 3
    /\ rast[img] # rast[LastRead]

NodataSet(r) == {p \in DOMAIN r : r[p] = nodata}

\* C30: when an iteration has ended, the positions holding the nodata
\* sentinel in the raster it wrote are exactly those holding it in the
\* raster it read.
C30_NodataSetUnchanged ==
    (s_pc = "loop" /\ iteration >= 1)
    => NodataSet(rast[img]) = NodataSet(rast[LastRead])

FilterRaised == \E w \in Workers : wpc[w] = "raised"

\* C28: within an iteration no window is read or written more than once
\* and a window is written only after it was read; an iteration ends only
\* when every window has been read once and written once, and windows are
\* read only between the start of an iteration and its end; unless the
\* filter raises, an iteration that started ends and smoothing of an
\* existing source ends in the state done.
C28_IterationBarrier ==
    /\ [](\A k \in DOMAIN nreads :
            nreads[k] <= 1 /\ nwrites[k] <= nreads[k])
    /\ []((s_pc = "loop" /\ iteration >= 1)
            => \A k \in DOMAIN nreads : nreads[k] = 1 /\ nwrites[k] = 1)
    /\ [][/\ iteration' # iteration
               => /\ DOMAIN nwrites = 1..Len(Windows(shape, window_size))
                  /\ \A k \in DOMAIN nwrites : nreads[k] = 1 /\ nwrites[k] = 1
          /\ nreads' # nreads
               => (s_pc = "loop" /\ s_pc' = "parallel") \/ s_pc = "parallel"]_vars
    /\ \A i \in 0..(MaxIter - 1) :
         (s_pc = "parallel" /\ iteration = i) ~> (iteration = i + 1 \/ FilterRaised)
    /\ (s_pc = "loop") ~> (s_pc = "done" \/ FilterRaised)

\* the second iteration is about to end: every window was read and written
\* once in it, by two workers
C28_Witness ==
    /\ s_pc = "parallel"
    /\ iteration = 1
    /\ num_workers > 1
    /\ Len(windows) > 2
    /\ \A k \in DOMAIN nwrites : nwrites[k] = 1

-----------------------------------------------------------------------------
(* Further claims about create_dem, checked under SpecDem *)

\* the raster gdal_translate wrote to tiles.tmp.tif: the mosaic of the
\* listed tiles before the gap fill
PreGapfill == File("raster", tiles, {})

FailedBeforeCleanup ==
    pc = "error" /\ failedAt # "cleanup"

\* C32: a step that removes a tile file is the cleanup, taken with the
\* raster of this invocation already at the declared output path; when
\* rendering, discovery, mosaic building, gap fill or smoothing failed,
\* every listed tile file is still on disk.
C32_TileLifecycle ==
    /\ [][(tileFiles \ tileFiles' # {})
           => /\ pc = "cleanup"
              /\ pc' = "done"
              /\ IsNewRaster(disk[output_path])]_vars
    /\ [](FailedBeforeCleanup => Range(tiles) \subseteq tileFiles)

\* the gap fill failed with several tile files on disk
C32_Witness ==
    /\ pc = "error"
    /\ failedAt = "fillnodata"
    /\ Cardinality(tileFiles) > 1
    /\ Range(tiles) = tileFiles

\* C33: when no tile file is found, create_dem ends with the 'No DEM tiles
\* were generated' error, before the tile list, the virtual mosaic or any
\* raster is written and with the declared output path untouched.
C33_NoTilesError ==
    failedAt = "fetch"
    => /\ pc = "error"
       /\ exc = "ExitException"
       /\ tiles = <<>>
       /\ \A f \in FileNames \ {output_path} : ~Exists(disk, f)
       /\ ~IsNewRaster(disk[output_path])

\* ---------------------------------------------------------------------
(* window_filter_2d called on its own, with any window *)

\* the kernel sizes window_filter_2d is called with
WindowKernels == {1, 3, 5}

\* [row_start, col_start, row_end, col_end] lists, inside and outside the
\* rasters of the bounded shapes
WindowArgs ==
    {w \in ((-1)..(MaxRows + 1)) \X ((-1)..(MaxCols + 1))
           \X ((-1)..(MaxRows + 1)) \X ((-1)..(MaxCols + 1)) :
        w[1] < w[3] /\ w[2] < w[4]}

\* one call of window_filter_2d(img, imgout, nodata, window, kernel_size,
\* filter, read_lock, write_lock) on open rasters, both locks free
WindowInit ==
    /\ DemParked
    /\ PlanParked
    /\ SigParked
    /\ PoolParked
    /\ EptParked
    /\ StageParked
    /\ s_pc = "parallel"
    /\ smoothing_iterations = 1
    /\ window_size = MaxCols
    /\ num_workers = 1
    /\ kernel_size \in WindowKernels
    /\ shape \in Shapes
    /\ \E r \in UniformRasters(shape) :
        rast = [f \in SmoothFiles |-> IF f = geotiff_path THEN r ELSE Blank(shape)]
    /\ present = {geotiff_path, output_dirty_1, output_dirty_2}
    /\ img = geotiff_path
    /\ imgout = output_dirty_1
    /\ imgout2 = output_dirty_2
    /\ iteration = 0
    /\ \E window \in WindowArgs : windows = <<window>>
    /\ nextWin = 1
    /\ wpc = [w \in 1..MaxWorkers |-> "idle"]
    /\ wwin = [w \in 1..MaxWorkers |-> NoWindow]
    /\ warr = [w \in 1..MaxWorkers |-> EmptyArr]
    /\ read_lock = 0
    /\ write_lock = 0
    /\ nreads = <<0>>
    /\ nwrites = <<0>>

WindowNext ==
    \/ \E w \in Workers : StartRead(w)
    \/ \E w \in Workers : FinishRead(w)
    \/ \E w \in Workers : Filter(w)
    \/ \E w \in Workers : FilterRaises(w)
    \/ \E w \in Workers : StartWrite(w)
    \/ \E w \in Workers : FinishWrite(w)

SpecWindow == WindowInit /\ [][WindowNext]_vars

\* ---------------------------------------------------------------------
(* entwine.build: the EPT build with its untwine fallback *)

EptInit ==
    /\ DemParked
    /\ SmoothParked
    /\ PlanParked
    /\ SigParked
    /\ PoolParked
    /\ StageParked
    /\ ept_pc = "start"
    /\ num_files \in 0..MaxFiles
    /\ rerun \in BOOLEAN
    /\ ept_fs \in EptFs
    /\ build_i = 0
    /\ ept_runs = <<>>

DirCleanupOutputOnly(fs) == [fs EXCEPT !.output = FALSE, !.scan_json = FALSE]

\* dir_cleanup(): rmtree of output_path and of tmpdir, each if it exists
DirCleanup(fs) == [output |-> FALSE, scan_json |-> FALSE, tmp |-> FALSE]

\* if num_files == 0: return; tmpdir; if rerun: dir_cleanup()
EptBegin ==
    /\ ept_pc = "start"
    /\ IF num_files = 0
       THEN /\ ept_pc' = "done"
            /\ UNCHANGED ept_fs
       ELSE /\ ept_pc' = "scan"
            /\ ept_fs' = IF rerun THEN DirCleanup(ept_fs) ELSE ept_fs
    /\ UNCHANGED <<num_files, rerun, build_i, ept_runs>>
    /\ UNCHANGED <<demVars, smoothVars, planVars, sigVars, poolVars, stageVars>>

\* build_entwine: system.run('entwine scan ...'), then the test for scan.json;
\* the command leaves the directories in any state
EntwineScan ==
    /\ ept_pc = "scan"
    /\ \E ret \in RetCodes : \E f \in EptFs :
        /\ ept_runs' = Append(ept_runs, <<"entwine scan", ret>>)
        /\ ept_fs' = f
        /\ ept_pc' = IF RunRaises(ret) THEN "except"
                     ELSE IF f.scan_json THEN "build" ELSE "rmtmp"
    /\ build_i' = 0
    /\ UNCHANGED <<num_files, rerun>>
    /\ UNCHANGED <<demVars, smoothVars, planVars, sigVars, poolVars, stageVars>>

\* for _ in range(len(input_point_cloud_files)): system.run('entwine build ...')
EntwineBuild ==
    /\ ept_pc = "build"
    /\ build_i < num_files
    /\ \E ret \in RetCodes : \E f \in EptFs :
        /\ ept_runs' = Append(ept_runs, <<"entwine build", ret>>)
        /\ ept_fs' = f
        /\ IF RunRaises(ret)
           THEN /\ ept_pc' = "except"
                /\ UNCHANGED build_i
           ELSE /\ build_i' = build_i + 1
                /\ ept_pc' = IF build_i + 1 = num_files THEN "rmtmp" ELSE "build"
    /\ UNCHANGED <<num_files, rerun>>
    /\ UNCHANGED <<demVars, smoothVars, planVars, sigVars, poolVars, stageVars>>

\* except Exception: dir_cleanup()
EptExcept ==
    /\ ept_pc = "except"
    /\ ept_fs' = DirCleanup(ept_fs)
    /\ ept_pc' = "untwine"
    /\ UNCHANGED <<num_files, rerun, build_i, ept_runs>>
    /\ UNCHANGED <<demVars, smoothVars, planVars, sigVars, poolVars, stageVars>>

\* build_untwine: system.run('untwine ...'); its exception leaves build
Untwine ==
    /\ ept_pc = "untwine"
    /\ \E ret \in RetCodes : \E f \in EptFs :
        /\ ept_runs' = Append(ept_runs, <<"untwine", ret>>)
        /\ ept_fs' = f
        /\ ept_pc' = IF RunRaises(ret) THEN "error" ELSE "rmtmp"
    /\ UNCHANGED <<num_files, rerun, build_i>>
    /\ UNCHANGED <<demVars, smoothVars, planVars, sigVars, poolVars, stageVars>>

\* if os.path.exists(tmpdir): shutil.rmtree(tmpdir)
RemoveTmpdir ==
    /\ ept_pc = "rmtmp"
    /\ ept_fs' = [ept_fs EXCEPT !.tmp = FALSE]
    /\ ept_pc' = "done"
    /\ UNCHANGED <<num_files, rerun, build_i, ept_runs>>
    /\ UNCHANGED <<demVars, smoothVars, planVars, sigVars, poolVars, stageVars>>

EptNext ==
    \/ EptBegin
    \/ EntwineScan
    \/ EntwineBuild
    \/ EptExcept
    \/ Untwine
    \/ RemoveTmpdir

SpecEpt == EptInit /\ [][EptNext]_vars

\* ---------------------------------------------------------------------
(* ODM_Stage.run: the chain of connected stages *)

\* what a call of process does: populate outputs['tree'], leave the outputs
\* alone, remove the tree, set self.next_stage = None, or raise
ProcessOutcomes == {"tree", "none", "clear", "cut", "raise"}

StageInit ==
    /\ DemParked
    /\ SmoothParked
    /\ PlanParked
    /\ SigParked
    /\ PoolParked
    /\ EptParked
    /\ st_pc = "process"
    /\ start_stage \in Stages
    /\ stage = start_stage
    /\ args_end_with \in 0..MaxStages
    /\ args_rerun \in 0..MaxStages
    /\ next_stage = ConnectUpTo(MaxStages)
    /\ tree \in BOOLEAN
    /\ ran = <<>>

\* self.process(self.args, outputs)
StageProcess ==
    /\ st_pc = "process"
    /\ \E o \in ProcessOutcomes :
        LET t == IF o = "tree" THEN TRUE ELSE IF o = "clear" THEN FALSE ELSE tree
        IN  /\ ran' = Append(ran, <<stage, o, t>>)
            /\ tree' = t
            /\ next_stage' = IF o = "cut" THEN [next_stage EXCEPT ![stage] = 0]
                              ELSE next_stage
            /\ st_pc' = IF o = "raise" THEN "error" ELSE "after"
    /\ UNCHANGED <<stage, start_stage, args_end_with, args_rerun>>
    /\ UNCHANGED <<demVars, smoothVars, planVars, sigVars, poolVars, eptVars>>

LastStageEndWithOnly(name) == args_end_with = name

\* self.args.end_with == self.name or self.args.rerun == self.name
LastStage(name) == args_end_with = name \/ args_rerun = name

\* the rest of run: the test of outputs.get('tree'), the test for the last
\* stage, the call of self.next_stage.run(outputs)
StageAfter ==
    /\ st_pc = "after"
    /\ IF ~tree
       THEN /\ st_pc' = "error"
            /\ UNCHANGED stage
       ELSE IF LastStage(stage)
       THEN /\ st_pc' = "done"
            /\ UNCHANGED stage
       ELSE IF next_stage[stage] # 0
       THEN /\ st_pc' = "process"
            /\ stage' = next_stage[stage]
       ELSE /\ st_pc' = "done"
            /\ UNCHANGED stage
    /\ UNCHANGED <<start_stage, args_end_with, args_rerun, next_stage, tree, ran>>
    /\ UNCHANGED <<demVars, smoothVars, planVars, sigVars, poolVars, eptVars>>

StageNext ==
    \/ StageProcess
    \/ StageAfter

SpecStage == StageInit /\ [][StageNext]_vars

\* ---------------------------------------------------------------------
\* Further claims about median_smoothing and window_filter_2d

\* C34: when the source raster does not exist, median_smoothing raises as
\* its first step and that step changes no file: no scratch file is ever
\* created, no window is ever read or written, and the file at the output
\* path, if there is one, stays as it was.
C34_MissingSource ==
    /\ [][(s_pc = "start" /\ geotiff_path \notin present)
            => /\ s_pc' = "error"
               /\ present' = present
               /\ rast' = rast]_vars
    /\ [](geotiff_path \notin present
            => /\ s_pc \in {"start", "error"}
               /\ output_dirty_1 \notin present
               /\ output_dirty_2 \notin present
               /\ nreads = <<>>
               /\ nwrites = <<>>)

\* smoothing of a missing source raised, an earlier output being in place
C34_Witness ==
    /\ s_pc = "error"
    /\ geotiff_path \notin present
    /\ present = {output_path}
    /\ smoothing_iterations > 0

\* a list [row_start, col_start, row_end, col_end] with start <= end that
\* lies within a raster of shape sh
Within(sh, window) ==
    /\ 0 <= window[1] /\ window[1] <= window[3] /\ window[3] <= sh[1]
    /\ 0 <= window[2] /\ window[2] <= window[4] /\ window[4] <= sh[2]

\* the window the call was made with was read from / written to
WindowTouched ==
    \/ nreads # <<0>>
    \/ nwrites # <<0>>
    \/ rast[output_dirty_1] # Blank(shape)
    \/ \E w \in Workers : wpc[w] # "idle"

\* C35: a window the call goes on with lies within the raster; the window
\* read for it contains it, lies within the raster and extends it on each
\* side by min(kernel_size // 2, distance to that edge of the raster), and
\* the data read has exactly the shape of that window; a call with a window
\* not within the raster raises, and then nothing was read or written.
C35_ExpandedBounds ==
    /\ [](\A w \in Workers :
            wwin[w] # NoWindow =>
              LET win == wwin[w]
                  ew == ExpandedWindow(shape, win, kernel_size)
                  h == kernel_size \div 2
              IN  /\ Within(shape, win)
                  /\ Within(shape, ew)
                  /\ ew[1] <= win[1] /\ ew[2] <= win[2]
                  /\ win[3] <= ew[3] /\ win[4] <= ew[4]
                  /\ win[1] - ew[1] = Min(h, win[1])
                  /\ win[2] - ew[2] = Min(h, win[2])
                  /\ ew[3] - win[3] = Min(h, shape[1] - win[3])
                  /\ ew[4] - win[4] = Min(h, shape[2] - win[4])
                  /\ wpc[w] = "filter" => DOMAIN warr[w] = WindowShape(ew))
    /\ []((s_pc = "error" /\ ~FilterRaised)
            => ~Within(shape, windows[1]) /\ ~WindowTouched)
    /\ [][(nextWin = 1 /\ ~Within(shape, windows[1]))
            => s_pc' = "error"]_vars

\* the data of the middle column of a raster of three columns was read with
\* a kernel of size 5: the window read is clipped by the raster, one column
\* further on each side instead of two
C35_Witness ==
    /\ wpc[1] = "filter"
    /\ kernel_size = 5
    /\ wwin[1][2] = 1
    /\ wwin[1][4] = 2
    /\ shape[2] = 3
    /\ DOMAIN warr[1] = WindowShape(<<0, 0, shape[1], 3>>)

\* ---------------------------------------------------------------------
\* Claims about entwine.build, checked under SpecEpt

\* how many times a command was run
Runs(cmd) == Cardinality({k \in DOMAIN ept_runs : ept_runs[k][1] = cmd})

\* an entwine command ended with a status system.run raises on
EntwineRaised ==
    \E k \in DOMAIN ept_runs :
        /\ ept_runs[k][1] \in {"entwine scan", "entwine build"}
        /\ ept_runs[k][2] # 0

\* C36: untwine is run only after an entwine command raised, with neither
\* the output directory nor the temp directory in place, and at most once;
\* a build that ended ran untwine exactly once if entwine raised and never
\* otherwise; when a build of at least one input file has returned the temp
\* directory does not exist; with no input file no command is run and no
\* directory changes.
C36_UntwineFallback ==
    /\ [](ept_pc = "untwine"
            => /\ EntwineRaised
               /\ ~ept_fs.output
               /\ ~ept_fs.tmp
               /\ Runs("untwine") = 0)
    /\ [](Runs("untwine") <= 1)
    /\ [](ept_pc \in {"done", "error"}
            => (Runs("untwine") = 1 <=> EntwineRaised))
    /\ []((ept_pc = "done" /\ num_files > 0) => ~ept_fs.tmp)
    /\ [][num_files = 0 => UNCHANGED <<ept_fs, ept_runs>>]_vars
    /\ [](num_files = 0 => ept_runs = <<>>)

\* the second entwine build raised, untwine then succeeded and build
\* returned
C36_Witness ==
    /\ ept_pc = "done"
    /\ num_files = 2
    /\ Len(ept_runs) = 4
    /\ ept_runs[3] = <<"entwine build", 1>>
    /\ ept_runs[4] = <<"untwine", 0>>
    /\ ept_fs.output

\* ---------------------------------------------------------------------
\* Claims about ODM_Stage.run, checked under SpecStage

\* C37: the stages whose process is called are the start stage and the
\* stages connected after it, in that order and without a gap, so each at
\* most once; the process of a stage is called only when the process of
\* the stage before it returned with 'tree' populated, that stage is named
\* neither by end_with nor by rerun and did not clear its next_stage; a
\* chain that ended without an exception ended at a stage so named, at a
\* stage without a next stage, or at the last stage connected.
C37_StageChain ==
    /\ \A k \in 1..Len(ran) : ran[k][1] = start_stage + k - 1
    /\ \A k \in 2..Len(ran) :
         /\ ran[k - 1][2] # "raise"
         /\ ran[k - 1][3]
         /\ ran[k - 1][1] # args_end_with
         /\ ran[k - 1][1] # args_rerun
         /\ ran[k - 1][2] # "cut"
    /\ st_pc = "process" => stage = start_stage + Len(ran)
    /\ st_pc = "done"
         => /\ ran # <<>>
            /\ LET last == ran[Len(ran)]
               IN  /\ last[3]
                   /\ \/ last[1] \in {args_end_with, args_rerun}
                      \/ last[2] = "cut"
                      \/ last[1] = MaxStages

\* a chain started at the first stage ended at the second one, named by
\* rerun, with a third stage connected
C37_Witness ==
    /\ st_pc = "done"
    /\ start_stage = 1
    /\ args_rerun = 2
    /\ args_end_with = 0
    /\ Len(ran) = 2
    /\ next_stage[2] = 3

====
